---- MODULE Spec2Model ----
(***************************************************************************)
(* The two games of src/src/game-travel.ts as a state machine: the decoder  *)
(* game (class DecoderGame and its eight tools) and the travel game (class *)
(* TravelGame and its three tools).  One action per tool: the action is    *)
(* the whole execute() handler, rejections included.  A run plays one of   *)
(* the two games.                                                          *)
(*                                                                         *)
(* A string that is split at ':' by the code is a pair <<name, detail>>:   *)
(* name is what split(':')[0].trim() yields, detail is the text after the  *)
(* delimiter ("" when the string holds no delimiter).                      *)
(***************************************************************************)
EXTENDS Integers, Sequences, FiniteSets, TLC

VARIABLES
    state,      \* DecoderGame.state
    database,   \* DecoderGame.database.area
    travel,     \* TravelGame.state
    turn,       \* the tool calls of one turn that were dispatched together
    result,     \* the ToolResult of the latest tool call
    caller,     \* the orchestrator: the game it plays, the calls it has yet to issue
    history     \* what the run has done so far (not program state)

vars == <<state, database, travel, turn, result, caller, history>>

\* ------------------------------------------------------------------ bounds
\* The engine has no step ceiling; the caller stops issuing calls once it has made
\* MaxSteps counted steps of its own choice after the calls of its playbook.
MaxSteps == 3

\* The most tool calls the language model requests in one turn.
MaxBatch == 3

\* --------------------------------------------------------- array helpers
\* Array.prototype.includes
Includes(arr, x) == \E i \in 1..Len(arr) : arr[i] = x

\* Array.prototype.indexOf, 1-based; 0 when absent (JavaScript: -1)
IndexOf(arr, x) ==
    IF Includes(arr, x)
    THEN CHOOSE i \in 1..Len(arr) :
            /\ arr[i] = x
            /\ \A j \in 1..(i - 1) : arr[j] # x
    ELSE 0

\* Array.prototype.splice(index, 1)
Splice(arr, i) == SubSeq(arr, 1, i - 1) \o SubSeq(arr, i + 1, Len(arr))

\* What Array.prototype.find returns when no element matches
Undefined == <<>>

\* Array.prototype.find with the predicate given as the set of matching values
Find(arr, matching) ==
    IF \E i \in 1..Len(arr) : arr[i] \in matching
    THEN arr[CHOOSE i \in 1..Len(arr) :
                /\ arr[i] \in matching
                /\ \A j \in 1..(i - 1) : arr[j] \notin matching]
    ELSE Undefined

\* ------------------------------------------------------------ world data
Areas ==
    {"landing_zone", "volcanic_plains", "crystal_forest", "underground_caverns",
     "hidden_lake", "ancient_ruins", "signal_source"}

BasicFrequency == <<"basic_frequency", "Alpha waves detected - pattern repeats every 3 units">>
InterferencePattern == <<"interference_pattern", "Beta spikes - correlates with heat sources, offset by 2">>
HarmonicSequence == <<"harmonic_sequence", "Gamma harmonics - builds on alpha, multiplies by 1.5">>
EchoCode == <<"echo_code", "Delta echoes - reflects beta, inverts every 4th unit">>
WaveRipple == <<"wave_ripple", "Epsilon ripples - combines gamma and alpha, averages values">>
SymbolCipher == <<"symbol_cipher", "Zeta symbols - synthesizes beta and delta, shifts by 3">>
CoreTransmission == <<"core_transmission", "Omega core - integrates all patterns, solve with combined clues">>

AllSignals ==
    {BasicFrequency, InterferencePattern, HarmonicSequence, EchoCode, WaveRipple,
     SymbolCipher, CoreTransmission}

\* this.database.area as init() builds it
InitAreaDatabase ==
    [a \in Areas |->
        CASE a = "landing_zone" ->
                [artifacts |-> <<"signal_scanner", "energy_crystal">>,
                 signals |-> <<BasicFrequency>>,
                 connections |-> <<"volcanic_plains", "crystal_forest">>,
                 riskLevel |-> "low",
                 explored |-> TRUE]
          [] a = "volcanic_plains" ->
                [artifacts |-> <<"heat_resistant_probe", "lava_sample">>,
                 signals |-> <<InterferencePattern>>,
                 connections |-> <<"landing_zone", "underground_caverns", "ancient_ruins">>,
                 riskLevel |-> "medium",
                 explored |-> FALSE]
          [] a = "crystal_forest" ->
                [artifacts |-> <<"vibration_analyzer", "crystal_shard">>,
                 signals |-> <<HarmonicSequence>>,
                 connections |-> <<"landing_zone", "hidden_lake", "ancient_ruins">>,
                 riskLevel |-> "low",
                 explored |-> FALSE]
          [] a = "underground_caverns" ->
                [artifacts |-> <<"echo_locator", "fossil_remnant">>,
                 signals |-> <<EchoCode>>,
                 connections |-> <<"volcanic_plains", "signal_source">>,
                 riskLevel |-> "high",
                 explored |-> FALSE]
          [] a = "hidden_lake" ->
                [artifacts |-> <<"water_sampler", "aquatic_artifact">>,
                 signals |-> <<WaveRipple>>,
                 connections |-> <<"crystal_forest", "signal_source">>,
                 riskLevel |-> "medium",
                 explored |-> FALSE]
          [] a = "ancient_ruins" ->
                [artifacts |-> <<"symbol_decoder", "engraved_tablet">>,
                 signals |-> <<SymbolCipher>>,
                 connections |-> <<"volcanic_plains", "crystal_forest">>,
                 riskLevel |-> "medium",
                 explored |-> FALSE]
          [] a = "signal_source" ->
                [artifacts |-> <<"master_artifact">>,
                 signals |-> <<CoreTransmission>>,
                 connections |-> <<"underground_caverns", "hidden_lake">>,
                 riskLevel |-> "very_high",
                 explored |-> FALSE]]

\* this.database.artifact: the value of each artifact
ArtifactValue ==
    [signal_scanner |-> 20, energy_crystal |-> 15, heat_resistant_probe |-> 30,
     lava_sample |-> 25, vibration_analyzer |-> 35, crystal_shard |-> 20,
     echo_locator |-> 40, fossil_remnant |-> 30, water_sampler |-> 25,
     aquatic_artifact |-> 35, symbol_decoder |-> 45, engraved_tablet |-> 40,
     master_artifact |-> 100]

Artifacts == DOMAIN ArtifactValue

\* this.database.signal: the key 'a+b' is the pair <<a, b>>
SignalDatabase ==
    (<<"basic_frequency", "harmonic_sequence">> :> [value |-> 100, bonus |-> "pattern_chain"])
 @@ (<<"interference_pattern", "echo_code">> :> [value |-> 120, bonus |-> "risk_reward"])
 @@ (<<"wave_ripple", "symbol_cipher">> :> [value |-> 150, bonus |-> "synthesis"])
 @@ (<<"basic_frequency", "interference_pattern">> :> [value |-> 90, bonus |-> "foundation"])
 @@ (<<"harmonic_sequence", "wave_ripple">> :> [value |-> 110, bonus |-> "resonance"])
 @@ (<<"echo_code", "symbol_cipher">> :> [value |-> 130, bonus |-> "ancient_link"])

\* The table with the high tier priced as the medium one
RiskCosts_HighAsMedium == [low |-> 1, medium |-> 2, high |-> 2, very_high |-> 4]

\* riskCosts of MoveToAreaTool.execute
RiskCosts == [low |-> 1, medium |-> 2, high |-> 3, very_high |-> 4]

\* --------------------------------------------------------------- strings
\* s.split(':')[0].trim()
SplitName(s) == s[1]

\* s.includes('harmonic') || s.includes('Gamma'): of the texts of the world data
\* only the name harmonic_sequence holds 'harmonic' and only its detail holds
\* 'Gamma' with a capital G ('combines gamma and alpha' does not match).
IsHarmonicText(s) ==
    \/ s[1] \in {"harmonic_sequence"}
    \/ s[2] \in {"Gamma harmonics - builds on alpha, multiplies by 1.5"}

\* -------------------------------------------------------------- results
\* createSuccessResult: the payload fields that do not merely echo the state
Success(tool, data) == [tool |-> tool, success |-> TRUE, data |-> data]

\* createErrorResult
ErrorResult(tool, message) == [tool |-> tool, success |-> FALSE, error |-> message]

NoData == [gameEnded |-> FALSE]

\* ----------------------------------------------------------------- init
\* The game started with half the energy
InitState_HalfEnergy ==
    [position |-> "landing_zone",
     energy |-> 15,
     artifacts |-> <<>>,
     decodedSignals |-> <<>>,
     exploredAreas |-> <<"landing_zone">>,
     gatheredClues |-> <<>>,
     hypotheses |-> <<>>,
     score |-> 0,
     stepCount |-> 0,
     bonusesEarned |-> <<>>,
     completed |-> FALSE]

InitState ==
    [position |-> "landing_zone",
     energy |-> 30,
     artifacts |-> <<>>,
     decodedSignals |-> <<>>,
     exploredAreas |-> <<"landing_zone">>,
     gatheredClues |-> <<>>,
     hypotheses |-> <<>>,
     score |-> 0,
     stepCount |-> 0,
     bonusesEarned |-> <<>>,
     completed |-> FALSE]


\* A rejection that counts the attempt as a step
Reject_CountsStep(tool, message) ==
    /\ result' = ErrorResult(tool, message)
    /\ state' = [state EXCEPT !.stepCount = @ + 1]
    /\ UNCHANGED database

\* A rejected call: createErrorResult, nothing written
Reject(tool, message) ==
    /\ result' = ErrorResult(tool, message)
    /\ UNCHANGED <<state, database>>

\* ------------------------------------------------------------ the tools
\* The test as a check for an empty pool only
InsufficientEnergy_OnlyWhenEmpty(energyCost) == state.energy <= 0

\* The test left out: a call is never refused for want of energy
InsufficientEnergy_Never(energyCost) == FALSE

\* game.state.energy < energyCost, the test each energy-costing tool makes
InsufficientEnergy(energyCost) == state.energy < energyCost

\* Looking around taken as free of steps as it is free of energy
ExploreConnections_Uncounted ==
    /\ result' = Success("exploreConnections", [currentPosition |-> state.position])
    /\ UNCHANGED <<state, database>>

ExploreConnections ==
    /\ state' = [state EXCEPT !.stepCount = @ + 1]
    /\ result' = Success("exploreConnections", [currentPosition |-> state.position])
    /\ UNCHANGED database

\* The adjacency test left out
Connected_Anywhere(area) == TRUE

\* Only areas not yet explored can be entered
Connected_OnlyNew(area) ==
    /\ Includes(database[state.position].connections, area)
    /\ ~database[area].explored

\* currentArea.connections.includes(area)
Connected(area) == Includes(database[state.position].connections, area)

\* The bonus as a flat amount
ExploreBonus_Flat(energyCost) == 10

\* exploreBonus of MoveToAreaTool.execute
ExploreBonus(energyCost) == energyCost * 10

\* The area pushed onto exploredAreas on every entry, explored before or not
MoveToArea_PushesAlways(area) ==
    LET targetArea == database[area]
    IN  IF area \notin DOMAIN database   \* !targetArea
        THEN Reject("moveToArea", "Unknown area")
        ELSE IF ~Connected(area)
        THEN Reject("moveToArea", "Not connected to current position")
        ELSE LET energyCost == RiskCosts[targetArea.riskLevel]
             IN IF InsufficientEnergy(energyCost)
                THEN Reject("moveToArea", "Insufficient energy")
                ELSE IF ~targetArea.explored
                        THEN /\ database' = [database EXCEPT ![area].explored = TRUE]
                             /\ result' = Success("moveToArea",
                                    [newPosition |-> area, exploreBonus |-> ExploreBonus(energyCost)])
                             /\ state' = [state EXCEPT
                                    !.energy = @ - energyCost,
                                    !.stepCount = @ + 1,
                                    !.position = area,
                                    !.exploredAreas = Append(@, area),
                                    !.score = @ + ExploreBonus(energyCost)]
                        ELSE /\ state' = [state EXCEPT
                                    !.energy = @ - energyCost,
                                    !.stepCount = @ + 1,
                                    !.position = area,
                                    !.exploredAreas = Append(@, area)]
                             /\ result' = Success("moveToArea", [newPosition |-> area])
                             /\ UNCHANGED database

MoveToArea(area) ==
    LET targetArea == database[area]
    IN  IF area \notin DOMAIN database   \* !targetArea
        THEN Reject("moveToArea", "Unknown area")
        ELSE IF ~Connected(area)
        THEN Reject("moveToArea", "Not connected to current position")
        ELSE LET energyCost == RiskCosts[targetArea.riskLevel]
             IN IF InsufficientEnergy(energyCost)
                THEN Reject("moveToArea", "Insufficient energy")
                ELSE IF ~targetArea.explored
                        THEN /\ database' = [database EXCEPT ![area].explored = TRUE]
                             /\ result' = Success("moveToArea",
                                    [newPosition |-> area, exploreBonus |-> ExploreBonus(energyCost)])
                             /\ state' = [state EXCEPT
                                    !.energy = @ - energyCost,
                                    !.stepCount = @ + 1,
                                    !.position = area,
                                    !.exploredAreas = Append(@, area),
                                    !.score = @ + ExploreBonus(energyCost)]
                        ELSE /\ state' = [state EXCEPT
                                    !.energy = @ - energyCost,
                                    !.stepCount = @ + 1,
                                    !.position = area]
                             /\ result' = Success("moveToArea", [newPosition |-> area])
                             /\ UNCHANGED database

\* The removal from the area left out
WithoutArtifact_Keeps(arr, artifact) == arr

\* const index = arr.indexOf(artifact); if (index > -1) arr.splice(index, 1)
WithoutArtifact(arr, artifact) ==
    LET index == IndexOf(arr, artifact)
    IN  IF index > 0 THEN Splice(arr, index) ELSE arr

CollectArtifact(artifact) ==
    LET energyCost == 1
        currentArea == database[state.position]
    IN  IF InsufficientEnergy(energyCost)
        THEN Reject("collectArtifact", "Insufficient energy")
        ELSE IF ~Includes(currentArea.artifacts, artifact)
        THEN Reject("collectArtifact", "Artifact not available here")
        ELSE IF Includes(state.artifacts, artifact)
        THEN Reject("collectArtifact", "Already collected")
        ELSE /\ state' = [state EXCEPT
                    !.energy = @ - energyCost,
                    !.stepCount = @ + 1,
                    !.artifacts = Append(@, artifact),
                    !.score = @ + ArtifactValue[artifact]]
             /\ database' = [database EXCEPT ![state.position].artifacts =
                                WithoutArtifact(@, artifact)]
             /\ result' = Success("collectArtifact",
                    [artifact |-> artifact, value |-> ArtifactValue[artifact]])

\* The strings of arr that the input names: same name before ':' or the same string
Matching(arr, input) ==
    {arr[i] : i \in {j \in 1..Len(arr) :
                        SplitName(arr[j]) = SplitName(input) \/ arr[j] = input}}

\* The analyzer makes the analysis free wherever it is done
AnalyzeCost_AnyArea ==
    IF Includes(state.artifacts, "vibration_analyzer") THEN 0 ELSE 1

\* energyCost of AnalyzeClueTool.execute
AnalyzeCost ==
    LET hasVibrationAnalyzer == Includes(state.artifacts, "vibration_analyzer")
        currentArea == database[state.position]
        isHarmonicArea == \E i \in 1..Len(currentArea.signals) :
                              IsHarmonicText(currentArea.signals[i])
    IN  IF hasVibrationAnalyzer /\ isHarmonicArea THEN 0 ELSE 1

\* The handler keeping the caller's string in place of the area's
AnalyzeClue_KeepsInput(signal) ==
    LET energyCost == AnalyzeCost
        currentArea == database[state.position]
        matchingSignal == Find(currentArea.signals, Matching(currentArea.signals, signal))
    IN  IF InsufficientEnergy(energyCost)
        THEN Reject("analyzeClue", "Insufficient energy")
        ELSE IF matchingSignal = Undefined
        THEN Reject("analyzeClue", "Signal not available here")
        ELSE IF Includes(state.gatheredClues, signal)
        THEN Reject("analyzeClue", "Already analyzed")
        ELSE /\ state' = [state EXCEPT
                    !.energy = @ - energyCost,
                    !.stepCount = @ + 1,
                    !.gatheredClues = Append(@, signal),
                    !.score = @ + 30]
             /\ result' = Success("analyzeClue",
                    [signal |-> signal, energyCost |-> energyCost,
                     analysisBonus |-> 30])
             /\ UNCHANGED database

\* The handler without its test for a clue that is already gathered
AnalyzeClue_NoGatheredCheck(signal) ==
    LET energyCost == AnalyzeCost
        currentArea == database[state.position]
        matchingSignal == Find(currentArea.signals, Matching(currentArea.signals, signal))
    IN  IF InsufficientEnergy(energyCost)
        THEN Reject("analyzeClue", "Insufficient energy")
        ELSE IF matchingSignal = Undefined
        THEN Reject("analyzeClue", "Signal not available here")
        ELSE /\ state' = [state EXCEPT
                    !.energy = @ - energyCost,
                    !.stepCount = @ + 1,
                    !.gatheredClues = Append(@, matchingSignal),
                    !.score = @ + 30]
             /\ result' = Success("analyzeClue",
                    [signal |-> matchingSignal, energyCost |-> energyCost,
                     analysisBonus |-> 30])
             /\ UNCHANGED database

AnalyzeClue(signal) ==
    LET energyCost == AnalyzeCost
        currentArea == database[state.position]
        matchingSignal == Find(currentArea.signals, Matching(currentArea.signals, signal))
    IN  IF InsufficientEnergy(energyCost)
        THEN Reject("analyzeClue", "Insufficient energy")
        ELSE IF matchingSignal = Undefined
        THEN Reject("analyzeClue", "Signal not available here")
        ELSE IF Includes(state.gatheredClues, matchingSignal)
        THEN Reject("analyzeClue", "Already analyzed")
        ELSE /\ state' = [state EXCEPT
                    !.energy = @ - energyCost,
                    !.stepCount = @ + 1,
                    !.gatheredClues = Append(@, matchingSignal),
                    !.score = @ + 30]
             /\ result' = Success("analyzeClue",
                    [signal |-> matchingSignal, energyCost |-> energyCost,
                     analysisBonus |-> 30])
             /\ UNCHANGED database

\* The discount looked up once, in the inventory the game starts with
DecodeCost_FromStart == IF Includes(InitState.artifacts, "signal_scanner") THEN 1 ELSE 2

\* energyCost of DecodeSignalTool.execute
DecodeCost == IF Includes(state.artifacts, "signal_scanner") THEN 1 ELSE 2

\* findClue of DecodeSignalTool.execute
FindClue(input) == Find(state.gatheredClues, Matching(state.gatheredClues, input))

\* The truthiness of game.database.signal[comboKey1] || game.database.signal[comboKey2]
HasRecipe(clue1, clue2) ==
    \/ <<SplitName(clue1), SplitName(clue2)>> \in DOMAIN SignalDatabase
    \/ <<SplitName(clue2), SplitName(clue1)>> \in DOMAIN SignalDatabase

\* game.database.signal[comboKey1] || game.database.signal[comboKey2], when truthy
Recipe(clue1, clue2) ==
    IF <<SplitName(clue1), SplitName(clue2)>> \in DOMAIN SignalDatabase
    THEN SignalDatabase[<<SplitName(clue1), SplitName(clue2)>>]
    ELSE SignalDatabase[<<SplitName(clue2), SplitName(clue1)>>]

\* The check made against the key in the order supplied only
AlreadyDecoded_SameOrderOnly(decodedKey, reverseKey) ==
    Includes(state.decodedSignals, decodedKey)

\* decodedSignals.includes(decodedKey) || decodedSignals.includes(reverseKey)
AlreadyDecoded(decodedKey, reverseKey) ==
    \/ Includes(state.decodedSignals, decodedKey)
    \/ Includes(state.decodedSignals, reverseKey)

\* Energy deducted ahead of the validation of the pair
DecodeSignal_DeductsFirst(signal1, signal2) ==
    LET energyCost == DecodeCost
        clue1 == FindClue(signal1)
        clue2 == FindClue(signal2)
        decodedKey == <<clue1, clue2>>
        reverseKey == <<clue2, clue1>>
    IN  IF InsufficientEnergy(energyCost)
        THEN Reject("decodeSignal", "Insufficient energy")
        ELSE IF clue1 = Undefined \/ clue2 = Undefined
        THEN /\ state' = [state EXCEPT !.energy = @ - energyCost]
             /\ result' = ErrorResult("decodeSignal", "Missing required clues")
             /\ UNCHANGED database
        ELSE IF ~HasRecipe(clue1, clue2)
        THEN /\ state' = [state EXCEPT !.energy = @ - energyCost]
             /\ result' = ErrorResult("decodeSignal", "Incompatible signals")
             /\ UNCHANGED database
        ELSE IF AlreadyDecoded(decodedKey, reverseKey)
        THEN /\ state' = [state EXCEPT !.energy = @ - energyCost]
             /\ result' = ErrorResult("decodeSignal", "Already decoded this combination")
             /\ UNCHANGED database
        ELSE /\ state' = [state EXCEPT
                    !.energy = @ - energyCost,
                    !.stepCount = @ + 1,
                    !.decodedSignals = Append(@, decodedKey),
                    !.score = @ + Recipe(clue1, clue2).value,
                    !.bonusesEarned = Append(@, Recipe(clue1, clue2).bonus)]
             /\ result' = Success("decodeSignal",
                    [value |-> Recipe(clue1, clue2).value,
                     bonus |-> Recipe(clue1, clue2).bonus,
                     energyCost |-> energyCost])
             /\ UNCHANGED database

DecodeSignal(signal1, signal2) ==
    LET energyCost == DecodeCost
        clue1 == FindClue(signal1)
        clue2 == FindClue(signal2)
        decodedKey == <<clue1, clue2>>
        reverseKey == <<clue2, clue1>>
    IN  IF InsufficientEnergy(energyCost)
        THEN Reject("decodeSignal", "Insufficient energy")
        ELSE IF clue1 = Undefined \/ clue2 = Undefined
        THEN Reject("decodeSignal", "Missing required clues")
        ELSE IF ~HasRecipe(clue1, clue2)
        THEN Reject("decodeSignal", "Incompatible signals")
        ELSE IF AlreadyDecoded(decodedKey, reverseKey)
        THEN Reject("decodeSignal", "Already decoded this combination")
        ELSE /\ state' = [state EXCEPT
                    !.energy = @ - energyCost,
                    !.stepCount = @ + 1,
                    !.decodedSignals = Append(@, decodedKey),
                    !.score = @ + Recipe(clue1, clue2).value,
                    !.bonusesEarned = Append(@, Recipe(clue1, clue2).bonus)]
             /\ result' = Success("decodeSignal",
                    [value |-> Recipe(clue1, clue2).value,
                     bonus |-> Recipe(clue1, clue2).bonus,
                     energyCost |-> energyCost])
             /\ UNCHANGED database

PlanOptimalRoute ==
    /\ state' = [state EXCEPT !.stepCount = @ + 1]
    /\ result' = Success("planOptimalRoute", NoData)
    /\ UNCHANGED database

\* The crystal left in the inventory
UseEnergyCrystal_KeepsCrystal ==
    IF ~Includes(state.artifacts, "energy_crystal")
    THEN Reject("useEnergyCrystal", "No energy crystal in inventory - collect it first")
    ELSE /\ state' = [state EXCEPT !.stepCount = @ + 1, !.energy = @ + 5]
         /\ result' = Success("useEnergyCrystal", [energyRestored |-> 5])
         /\ UNCHANGED database

UseEnergyCrystal ==
    IF ~Includes(state.artifacts, "energy_crystal")
    THEN Reject("useEnergyCrystal", "No energy crystal in inventory - collect it first")
    ELSE /\ state' = [state EXCEPT
                !.stepCount = @ + 1,
                !.artifacts = Splice(@, IndexOf(@, "energy_crystal")),
                !.energy = @ + 5]
         /\ result' = Success("useEnergyCrystal", [energyRestored |-> 5])
         /\ UNCHANGED database

\* (x / y).toFixed(1) read back by parseFloat, in tenths: the quotient rounded to
\* the nearest tenth.  A quotient of two integers that lies exactly halfway
\* between two tenths needs a divisor that is a multiple of 20 and a dividend
\* that is not a multiple of 10; halfway cases are rounded up here.
ToFixed1(x, y) == (20 * x + y) \div (2 * y)

\* efficiencyBonus of FinalizeDiscoveryTool.execute, from the efficiency in tenths
EfficiencyBonus(tenths) ==
    IF tenths > 1000 THEN 200 ELSE IF tenths > 500 THEN 100 ELSE 0

\* The tiers taken from their thresholds on, not above them
Ranking_FromThreshold(finalScore) ==
    IF finalScore >= 1500 THEN "MASTER DECODER"
    ELSE IF finalScore >= 1000 THEN "EXPERT DECODER"
    ELSE IF finalScore >= 600 THEN "SKILLED DECODER"
    ELSE "NOVICE DECODER"

\* ranking of FinalizeDiscoveryTool.execute
Ranking(finalScore) ==
    IF finalScore > 1500 THEN "MASTER DECODER"
    ELSE IF finalScore > 1000 THEN "EXPERT DECODER"
    ELSE IF finalScore > 600 THEN "SKILLED DECODER"
    ELSE "NOVICE DECODER"

\* message of FinalizeDiscoveryTool.execute: the two values put into the text,
\* the rank by a chain of its own
FinalizeMessage(finalScore) ==
    [finalScore |-> finalScore,
     rank |-> IF finalScore > 1500 THEN "MASTER"
              ELSE IF finalScore > 1000 THEN "EXPERT"
              ELSE IF finalScore > 600 THEN "SKILLED"
              ELSE "NOVICE"]

\* The payload of a successful finalizeDiscovery, computed from the game state
\* after completed, score and bonusesEarned were assigned
FinalizeReport(game) ==
    LET energyBonus == game.energy * 10
        efficiency == IF game.stepCount > 0 THEN ToFixed1(game.score, game.stepCount) ELSE 0
        efficiencyBonus == EfficiencyBonus(efficiency)
        finalScore == game.score + energyBonus + efficiencyBonus
    IN  [gameEnded |-> TRUE,
         baseScore |-> game.score,
         omegaBonus |-> 500,
         energyBonus |-> energyBonus,
         efficiencyBonus |-> efficiencyBonus,
         finalScore |-> finalScore,
         stepsUsed |-> game.stepCount,
         ranking |-> Ranking(finalScore),
         message |-> FinalizeMessage(finalScore)]

\* isAtSource and hasMinimumDecodes of FinalizeDiscoveryTool.execute
IsAtSource == state.position = "signal_source"

\* The threshold taken one pair too low
HasMinimumDecodes_Two == Len(state.decodedSignals) >= 2

HasMinimumDecodes == Len(state.decodedSignals) >= 3

\* The step counted only once both checks have passed
FinalizeDiscovery_ChecksFirst ==
    IF ~IsAtSource
    THEN Reject("finalizeDiscovery", "Must be at signal_source to finalize discovery")
    ELSE IF ~HasMinimumDecodes
    THEN Reject("finalizeDiscovery", "Need at least 3 decoded signals")
    ELSE /\ state' = [state EXCEPT
                !.stepCount = @ + 1,
                !.completed = TRUE,
                !.score = @ + 500,
                !.bonusesEarned = Append(@, "omega_revelation")]
         /\ result' = Success("finalizeDiscovery", FinalizeReport(state'))
         /\ UNCHANGED database

\* completed assigned the outcome of the two checks on every call
FinalizeDiscovery_AssignsOutcome ==
    /\ UNCHANGED database
    /\ IF ~IsAtSource \/ ~HasMinimumDecodes
       THEN /\ state' = [state EXCEPT !.stepCount = @ + 1, !.completed = FALSE]
            /\ result' = ErrorResult("finalizeDiscovery",
                                     IF ~IsAtSource
                                     THEN "Must be at signal_source to finalize discovery"
                                     ELSE "Need at least 3 decoded signals")
       ELSE /\ state' = [state EXCEPT
                    !.stepCount = @ + 1,
                    !.completed = TRUE,
                    !.score = @ + 500,
                    !.bonusesEarned = Append(@, "omega_revelation")]
            /\ result' = Success("finalizeDiscovery", FinalizeReport(state'))

\* The handler keeping the caller's finalHypothesis among the hypotheses
FinalizeDiscovery_RecordsHypothesis ==
    /\ UNCHANGED database
    /\ IF ~IsAtSource
       THEN /\ state' = [state EXCEPT !.stepCount = @ + 1]
            /\ result' = ErrorResult("finalizeDiscovery",
                                     "Must be at signal_source to finalize discovery")
       ELSE IF ~HasMinimumDecodes
       THEN /\ state' = [state EXCEPT !.stepCount = @ + 1]
            /\ result' = ErrorResult("finalizeDiscovery",
                                     "Need at least 3 decoded signals")
       ELSE /\ state' = [state EXCEPT
                    !.stepCount = @ + 1,
                    !.completed = TRUE,
                    !.score = @ + 500,
                    !.bonusesEarned = Append(@, "omega_revelation"),
                    !.hypotheses = Append(@, "finalHypothesis")]
            /\ result' = Success("finalizeDiscovery", FinalizeReport(state'))

FinalizeDiscovery ==
    /\ UNCHANGED database
    /\ IF ~IsAtSource
       THEN /\ state' = [state EXCEPT !.stepCount = @ + 1]
            /\ result' = ErrorResult("finalizeDiscovery",
                                     "Must be at signal_source to finalize discovery")
       ELSE IF ~HasMinimumDecodes
       THEN /\ state' = [state EXCEPT !.stepCount = @ + 1]
            /\ result' = ErrorResult("finalizeDiscovery",
                                     "Need at least 3 decoded signals")
       ELSE /\ state' = [state EXCEPT
                    !.stepCount = @ + 1,
                    !.completed = TRUE,
                    !.score = @ + 500,
                    !.bonusesEarned = Append(@, "omega_revelation")]
            /\ result' = Success("finalizeDiscovery", FinalizeReport(state'))

\* x / y of two integers, y > 0, kept exact: its whole part and what is left over
Quotient(x, y) == [whole |-> x \div y, rest |-> x % y]

\* The comparison made on whole parts only
Above_WholeOnly(quotient, threshold) == quotient.whole > threshold

\* quotient > threshold, for an integer threshold
Above(quotient, threshold) ==
    \/ quotient.whole > threshold
    \/ quotient.whole = threshold /\ quotient.rest > 0

\* DecoderGame.getFinalScore
GetFinalScore(game) ==
    LET energyBonus == game.energy * 10
        efficiency == IF game.stepCount > 0
                      THEN Quotient(game.score, game.stepCount)
                      ELSE Quotient(0, 1)
        efficiencyBonus ==
            IF Above(efficiency, 100) THEN 200
            ELSE IF Above(efficiency, 50) THEN 100
            ELSE 0
        reflectionBonus == Len(game.hypotheses) * 50
    IN  game.score + energyBonus + efficiencyBonus + reflectionBonus

\* The state assigned anew, the areas left as the run made them
DecoderInit_StateOnly ==
    /\ state' = InitState
    /\ result' = Success("init", NoData)
    /\ UNCHANGED database

\* DecoderGame.init(): state and database assigned anew
DecoderInit ==
    /\ state' = InitState
    /\ database' = InitAreaDatabase
    /\ result' = Success("init", NoData)

\* ------------------------------------------------------- the travel game
\* const MAX_STEPS of the travel game
MAX_STEPS == 8

\* TravelGame.init: database.cities[*].value
CityValue ==
    [newyork |-> 50, paris |-> 150, tokyo |-> 200, sydney |-> 120, rio |-> 130,
     capetown |-> 110]

Cities == DOMAIN CityValue

\* A route key 'from-to' or 'from-to_mode' is the triple <<from, to, mode>>, mode
\* "" when the key holds no '_'.
RouteKey(from, to, mode) == <<from, to, mode>>

\* TravelGame.init: database.routes
Routes ==
    LET Route(cost, time) == [cost |-> cost, time |-> time]
    IN  (RouteKey("newyork", "paris", "") :> Route(800, 1))
        @@ (RouteKey("newyork", "tokyo", "") :> Route(1200, 2))
        @@ (RouteKey("newyork", "rio", "") :> Route(900, 1))
        @@ (RouteKey("paris", "tokyo", "") :> Route(1000, 2))
        @@ (RouteKey("paris", "sydney", "") :> Route(1100, 2))
        @@ (RouteKey("paris", "capetown", "") :> Route(850, 1))
        @@ (RouteKey("tokyo", "sydney", "") :> Route(600, 1))
        @@ (RouteKey("tokyo", "capetown", "") :> Route(950, 2))
        @@ (RouteKey("sydney", "capetown", "") :> Route(700, 1))
        @@ (RouteKey("rio", "capetown", "") :> Route(750, 1))
        @@ (RouteKey("rio", "sydney", "") :> Route(1050, 2))
        @@ (RouteKey("paris", "capetown", "train") :> Route(400, 3))
        @@ (RouteKey("newyork", "rio", "bus") :> Route(150, 4))
        @@ (RouteKey("tokyo", "sydney", "bus") :> Route(200, 5))

\* TravelGame.init: state
TravelInitState ==
    [currentCity |-> "newyork",
     budget |-> 2000,
     visitedCities |-> <<"newyork">>,
     totalSpent |-> 0,
     score |-> 0,
     stepCount |-> 0,
     completed |-> FALSE]

\* routeKey.startsWith(`${currentCity}-`)
StartsFrom(routeKey, city) == routeKey[1] = city

\* routeKey.replace(`${currentCity}-`, '').split('_')[0]
Destination(routeKey) == routeKey[2]

\* A rejected call of the travel game
TravelReject(tool, message) ==
    /\ result' = ErrorResult(tool, message)
    /\ UNCHANGED travel

\* CheckRoutesTool.execute: the keys of the routes that start at the current city
CheckRoutes ==
    /\ result' = Success("checkRoutes",
            [routes |-> {routeKey \in DOMAIN Routes :
                            /\ StartsFrom(routeKey, travel.currentCity)
                            /\ Destination(routeKey) # travel.currentCity},
             stepsRemaining |-> MAX_STEPS - travel.stepCount])
    /\ UNCHANGED travel

\* The handler without its test of the budget
Travel_IgnoresBudget(routeKey) ==
    IF routeKey \notin DOMAIN Routes
    THEN TravelReject("travel", "Route not available")
    ELSE IF ~StartsFrom(routeKey, travel.currentCity)
    THEN TravelReject("travel", "Route doesn't start from the current city")
    ELSE LET route == Routes[routeKey]
             destination == Destination(routeKey)
             visited == Includes(travel.visitedCities, destination)
         IN  IF travel.stepCount + route.time > MAX_STEPS
             THEN TravelReject("travel", "Not enough steps remaining")
             ELSE /\ travel' = [travel EXCEPT
                         !.budget = @ - route.cost,
                         !.totalSpent = @ + route.cost,
                         !.stepCount = @ + route.time,
                         !.currentCity = destination,
                         !.visitedCities = IF visited THEN @ ELSE Append(@, destination),
                         !.score = IF visited THEN @ ELSE @ + CityValue[destination]]
                  /\ result' = Success("travel",
                         [newCity |-> destination,
                          cost |-> route.cost,
                          timeSpent |-> route.time,
                          visitBonus |-> IF Includes(travel'.visitedCities, destination)
                                         THEN 0 ELSE CityValue[destination]])

\* The cost taken from the budget and not added to totalSpent
Travel_SpendsUnrecorded(routeKey) ==
    IF routeKey \notin DOMAIN Routes
    THEN TravelReject("travel", "Route not available")
    ELSE IF ~StartsFrom(routeKey, travel.currentCity)
    THEN TravelReject("travel", "Route doesn't start from the current city")
    ELSE LET route == Routes[routeKey]
             destination == Destination(routeKey)
             visited == Includes(travel.visitedCities, destination)
         IN  IF travel.budget < route.cost
             THEN TravelReject("travel", "Insufficient budget")
             ELSE IF travel.stepCount + route.time > MAX_STEPS
             THEN TravelReject("travel", "Not enough steps remaining")
             ELSE /\ travel' = [travel EXCEPT
                         !.budget = @ - route.cost,
                         !.stepCount = @ + route.time,
                         !.currentCity = destination,
                         !.visitedCities = IF visited THEN @ ELSE Append(@, destination),
                         !.score = IF visited THEN @ ELSE @ + CityValue[destination]]
                  /\ result' = Success("travel",
                         [newCity |-> destination,
                          cost |-> route.cost,
                          timeSpent |-> route.time,
                          visitBonus |-> IF Includes(travel'.visitedCities, destination)
                                         THEN 0 ELSE CityValue[destination]])

\* TravelTool.execute
Travel(routeKey) ==
    IF routeKey \notin DOMAIN Routes
    THEN TravelReject("travel", "Route not available")
    ELSE IF ~StartsFrom(routeKey, travel.currentCity)
    THEN TravelReject("travel", "Route doesn't start from the current city")
    ELSE LET route == Routes[routeKey]
             destination == Destination(routeKey)
             visited == Includes(travel.visitedCities, destination)
         IN  IF travel.budget < route.cost
             THEN TravelReject("travel", "Insufficient budget")
             ELSE IF travel.stepCount + route.time > MAX_STEPS
             THEN TravelReject("travel", "Not enough steps remaining")
             ELSE /\ travel' = [travel EXCEPT
                         !.budget = @ - route.cost,
                         !.totalSpent = @ + route.cost,
                         !.stepCount = @ + route.time,
                         !.currentCity = destination,
                         !.visitedCities = IF visited THEN @ ELSE Append(@, destination),
                         !.score = IF visited THEN @ ELSE @ + CityValue[destination]]
                  /\ result' = Success("travel",
                         [newCity |-> destination,
                          cost |-> route.cost,
                          timeSpent |-> route.time,
                          visitBonus |-> IF Includes(travel'.visitedCities, destination)
                                         THEN 0 ELSE CityValue[destination]])

\* PlanRouteTool.execute: the required cities not yet visited
PlanRoute ==
    /\ result' = Success("planRoute",
            [remainingCities |->
                {city \in {"paris", "tokyo", "sydney", "rio", "capetown"} :
                    ~Includes(travel.visitedCities, city)}])
    /\ UNCHANGED travel

\* TravelGame.init(): state assigned anew (cities and routes are assigned the
\* same literals; no tool writes them)
TravelInit ==
    /\ travel' = TravelInitState
    /\ result' = Success("init", NoData)

\* visitedCities.reduce((sum, city) => sum + cities[city].value, 0)
RECURSIVE CityScore(_)
CityScore(visitedCities) ==
    IF visitedCities = <<>> THEN 0
    ELSE CityScore(SubSeq(visitedCities, 1, Len(visitedCities) - 1))
            + CityValue[visitedCities[Len(visitedCities)]]

RequiredCities == <<"paris", "tokyo", "sydney", "rio", "capetown">>

\* The budget turned into points before it is rounded down to hundreds
BudgetBonus_Unfloored(budget) == (budget * 5) \div 100

\* Math.floor(budget / 100) * 5
BudgetBonus(budget) == (budget \div 100) * 5

\* TravelGame.isCompleted: requiredCities.every(city => visitedCities.includes(city))
TravelIsCompleted(game) ==
    \A i \in 1..Len(RequiredCities) : Includes(game.visitedCities, RequiredCities[i])

\* TravelGame.getFinalScore; its allVisited is the expression of isCompleted
TravelGetFinalScore(game) ==
    LET cityScore == CityScore(game.visitedCities)
        budgetBonus == BudgetBonus(game.budget)
        completionBonus == IF TravelIsCompleted(game) THEN 500 ELSE 0
    IN  cityScore + budgetBonus + completionBonus

\* ------------------------------------------------------- the tool calls
\* The arguments a caller passes: every name of the world, and names of nothing
AreaInputs == Areas \cup {"nowhere"}

ArtifactInputs == Artifacts \cup {"nothing"}

\* Route keys: those of the database, and one that names no route
RouteInputs == DOMAIN Routes \cup {RouteKey("newyork", "sydney", "")}

\* Every short name, two full strings, a known name with another detail, no signal
SignalInputs ==
    {<<SplitName(s), "">> : s \in AllSignals}
        \cup {HarmonicSequence, <<"basic_frequency", "Beta">>, <<"static", "">>}

Call(tool, args) == [tool |-> tool, args |-> args]

Move(area) == Call("moveToArea", <<area>>)
Analyze(name) == Call("analyzeClue", <<<<name, "">>>>)
Decode(name1, name2) == Call("decodeSignal", <<<<name1, "">>, <<name2, "">>>>)
Finalize == Call("finalizeDiscovery", <<>>)
Collect(artifact) == Call("collectArtifact", <<artifact>>)

\* Opening calls of a run, each a play the system prompt's strategy allows.
\* ToTheSource walks straight to signal_source; LowOnEnergy decodes one pair and
\* walks until 4 energy is left; ReadyToFinish decodes three pairs and stops one
\* move short of signal_source; TwoPairsAtTheSource arrives there with two pairs
\* decoded and a third at hand; Finished completes the game.
ToTheSource == <<Move("crystal_forest"), Move("hidden_lake"), Move("signal_source")>>

LowOnEnergy ==
    <<Analyze("basic_frequency"), Move("crystal_forest"), Analyze("harmonic_sequence"),
      Decode("basic_frequency", "harmonic_sequence"), Move("ancient_ruins"),
      Move("volcanic_plains"), Move("underground_caverns"), Move("signal_source"),
      Move("underground_caverns"), Move("signal_source"), Move("underground_caverns")>>

ReadyToFinish ==
    <<Analyze("basic_frequency"), Move("crystal_forest"), Analyze("harmonic_sequence"),
      Decode("basic_frequency", "harmonic_sequence"), Move("ancient_ruins"),
      Analyze("symbol_cipher"), Move("crystal_forest"), Move("hidden_lake"),
      Analyze("wave_ripple"), Decode("harmonic_sequence", "wave_ripple"),
      Decode("symbol_cipher", "wave_ripple")>>

TwoPairsAtTheSource == SubSeq(ReadyToFinish, 1, 10) \o <<Move("signal_source")>>

Finished == ReadyToFinish \o <<Move("signal_source"), Finalize>>

\* One pair decoded, a second at hand, and back where the signal_scanner lies
BackAtTheStart ==
    <<Analyze("basic_frequency"), Move("crystal_forest"), Analyze("harmonic_sequence"),
      Decode("basic_frequency", "harmonic_sequence"), Move("hidden_lake"),
      Analyze("wave_ripple"), Move("crystal_forest"), Move("landing_zone")>>

\* One clue gathered and the vibration_analyzer in hand, in crystal_forest
WithTheAnalyzer ==
    <<Analyze("basic_frequency"), Move("crystal_forest"), Collect("vibration_analyzer")>>

Playbooks ==
    {<<>>, ToTheSource, LowOnEnergy, ReadyToFinish, TwoPairsAtTheSource, Finished,
     BackAtTheStart, WithTheAnalyzer}

\* No calls dispatched together: the caller issues one call at a time
NoTurn == [calls |-> <<>>, pc |-> <<>>, returned |-> <<>>]

NoHistory == [entered |-> {}, collected |-> {}, decodeCosts |-> {}]

Init ==
    /\ state = InitState
    /\ database = InitAreaDatabase
    /\ result = Success("init", NoData)
    /\ travel = TravelInitState
    /\ turn = NoTurn
    /\ \/ \E playbook \in Playbooks :
            caller = [game |-> "decoder", pending |-> playbook,
                      budget |-> Len(playbook) + MaxSteps]
       \/ caller = [game |-> "travel", pending |-> <<>>, budget |-> 0]
    /\ history = NoHistory

\* The run's record of the call just made: the areas moved into, the artifacts
\* collected, the energy paid for decodes
Observe ==
    history' =
        IF result'.success /\ result'.tool = "moveToArea"
        THEN [history EXCEPT !.entered = @ \cup {result'.data.newPosition}]
        ELSE IF result'.success /\ result'.tool = "collectArtifact"
        THEN [history EXCEPT !.collected = @ \cup {result'.data.artifact}]
        ELSE IF result'.success /\ result'.tool = "decodeSignal"
        THEN [history EXCEPT !.decodeCosts = @ \cup {result'.data.energyCost}]
        ELSE history

\* An exception thrown inside a tool's execute: the promise of instance.execute
\* is rejected with it and no ToolResult exists; nothing was written before it
Raise(tool, message) ==
    /\ result' = [tool |-> tool, success |-> FALSE, thrown |-> message]
    /\ UNCHANGED <<state, database>>

\* AnalyzeClueTool.execute called with a parameter object that holds no signal:
\* the callback of currentArea.signals.find evaluates signal.split(':') on the
\* first signal of the area
AnalyzeClueNoSignal ==
    IF InsufficientEnergy(AnalyzeCost)
    THEN Reject("analyzeClue", "Insufficient energy")
    ELSE IF database[state.position].signals = <<>>
    THEN Reject("analyzeClue", "Signal not available here")
    ELSE Raise("analyzeClue", "Cannot read properties of undefined (reading 'split')")

\* createTool's execute: the call reaches the tool it names
Execute(call) ==
    IF call.tool = "analyzeClue" /\ call.args = <<>> THEN AnalyzeClueNoSignal
    ELSE IF call.tool = "moveToArea" THEN MoveToArea(call.args[1])
    ELSE IF call.tool = "collectArtifact" THEN CollectArtifact(call.args[1])
    ELSE IF call.tool = "analyzeClue" THEN AnalyzeClue(call.args[1])
    ELSE IF call.tool = "decodeSignal" THEN DecodeSignal(call.args[1], call.args[2])
    ELSE FinalizeDiscovery

\* The caller issues the next call of its playbook
Scripted ==
    /\ caller.pending # <<>>
    /\ Execute(Head(caller.pending))
    /\ caller' = [caller EXCEPT !.pending = Tail(@)]
    /\ Observe
    /\ UNCHANGED <<travel, turn>>

\* The caller issues a call of its own choice
Free ==
    /\ caller.game = "decoder"
    /\ caller.pending = <<>>
    /\ state.stepCount < caller.budget
    /\ UNCHANGED <<caller, travel, turn>>

\* init() called again on the decoder game once the caller's playbook is
\* played; no tool call follows it
Reset ==
    /\ caller.game = "decoder"
    /\ caller.pending = <<>>
    /\ DecoderInit
    /\ caller' = [caller EXCEPT !.budget = 0]
    /\ UNCHANGED <<travel, turn, history>>

\* The caller plays the travel game
TravelFree ==
    /\ caller.game = "travel"
    /\ UNCHANGED <<state, database, turn, caller, history>>

Next ==
    \/ Scripted
    \/ Free /\ ExploreConnections /\ Observe
    \/ Free /\ (\E area \in AreaInputs : MoveToArea(area)) /\ Observe
    \/ Free /\ (\E artifact \in ArtifactInputs : CollectArtifact(artifact)) /\ Observe
    \/ Free /\ (\E signal \in SignalInputs : AnalyzeClue(signal)) /\ Observe
    \/ Free /\ (\E signal1, signal2 \in SignalInputs : DecodeSignal(signal1, signal2)) /\ Observe
    \/ Free /\ PlanOptimalRoute /\ Observe
    \/ Free /\ UseEnergyCrystal /\ Observe
    \/ Free /\ FinalizeDiscovery /\ Observe
    \/ TravelFree /\ CheckRoutes
    \/ TravelFree /\ (\E routeKey \in RouteInputs : Travel(routeKey))
    \/ TravelFree /\ PlanRoute

Spec == Init /\ [][Next]_vars

\* init() is public in both games; the repository calls it from the
\* constructors only.  A run in which the holder of the game object also calls
\* init() again, at any moment of the travel game and between the caller's
\* playbook and the end of the run in the decoder game:
NextOrInit ==
    \/ Next
    \/ Reset
    \/ TravelFree /\ TravelInit

InitSpec == Init /\ [][NextOrInit]_vars

\* The holder of the game object reads it through the Game interface, as
\* play.ts does when the run is over: isCompleted() and getFinalScore()
ReadDecoder ==
    /\ caller.game = "decoder"
    /\ caller.pending = <<>>
    /\ result' = Success("getFinalScore",
            [isCompleted |-> state.completed, finalScore |-> GetFinalScore(state)])
    /\ UNCHANGED <<state, database, travel, turn, caller, history>>

ReadTravel ==
    /\ caller.game = "travel"
    /\ result' = Success("getFinalScore",
            [isCompleted |-> TravelIsCompleted(travel),
             finalScore |-> TravelGetFinalScore(travel)])
    /\ UNCHANGED <<state, database, travel, turn, caller, history>>

NextOrRead ==
    \/ Next
    \/ ReadDecoder
    \/ ReadTravel

ReadSpec == Init /\ [][NextOrRead]_vars

\* A long run.  The decoder game's tools test no step limit (its MAX_STEPS is
\* put into the prompts and handed to the tool loop as the number of turns), so
\* a caller may go on calling: eighty calls of finalizeDiscovery refused at
\* landing_zone, each counted as a step, then the winning calls with the
\* vibration_analyzer collected on the way, then finalizeDiscovery nine times
\* at signal_source.
Marathon ==
    [i \in 1..80 |-> Finalize]
        \o <<Analyze("basic_frequency"), Move("crystal_forest"),
             Collect("vibration_analyzer")>>
        \o SubSeq(ReadyToFinish, 3, Len(ReadyToFinish))
        \o <<Move("signal_source")>>
        \o [i \in 1..9 |-> Finalize]

MarathonInit ==
    /\ state = InitState
    /\ database = InitAreaDatabase
    /\ result = Success("init", NoData)
    /\ travel = TravelInitState
    /\ turn = NoTurn
    /\ \/ \E playbook \in {<<>>, Marathon} :
            caller = [game |-> "decoder", pending |-> playbook,
                      budget |-> Len(playbook) + MaxSteps]
       \/ caller = [game |-> "travel", pending |-> <<>>, budget |-> 0]
    /\ history = NoHistory

MarathonSpec == MarathonInit /\ [][Next]_vars

\* ---------------------------------------------- calls dispatched together
\* The language model may request several tool calls in one turn; the tool loop
\* of streamText then calls the execute function of each, in the order of the
\* request, without waiting for the one before to settle.  An execute function
\* built by createTool runs synchronously up to its one await: through the whole
\* of instance.execute(params), whose body holds no await.  What follows the
\* await (the mapping of the ToolResult to the value handed to the caller) runs
\* later, at a time of the scheduler's choice.
BatchCalls ==
    {Move("crystal_forest"), Move("hidden_lake"), Move("landing_zone"),
     Collect("signal_scanner"), Collect("vibration_analyzer"),
     Analyze("harmonic_sequence"), Call("analyzeClue", <<>>)}

RECURSIVE Batches(_)
Batches(n) ==
    IF n = 0 THEN {<<>>}
    ELSE {Append(calls, call) : calls \in Batches(n - 1), call \in BatchCalls}

BatchInit ==
    /\ state = InitState
    /\ database = InitAreaDatabase
    /\ travel = TravelInitState
    /\ result = Success("init", NoData)
    /\ caller = [game |-> "decoder", pending |-> <<>>, budget |-> 0]
    /\ history = NoHistory
    /\ \E n \in 2..MaxBatch : \E calls \in Batches(n) :
            turn = [calls |-> calls,
                    pc |-> [i \in 1..n |-> "queued"],
                    returned |-> [i \in 1..n |-> Undefined]]

\* The last queued call is taken first
NextCall_Last ==
    CHOOSE i \in 1..Len(turn.calls) :
        /\ turn.pc[i] = "queued"
        /\ \A j \in i + 1..Len(turn.calls) : turn.pc[j] # "queued"

\* The call whose execute function the tool loop calls next: the first that
\* has not been called
NextCall ==
    CHOOSE i \in 1..Len(turn.calls) :
        /\ turn.pc[i] = "queued"
        /\ \A j \in 1..i - 1 : turn.pc[j] # "queued"

\* createTool's execute up to its await: instance.execute(params) has run whole
Invoke ==
    /\ \E i \in 1..Len(turn.calls) : turn.pc[i] = "queued"
    /\ Execute(turn.calls[NextCall])
    /\ turn' = [turn EXCEPT !.pc[NextCall] = "awaiting",
                            !.returned[NextCall] = result']
    /\ Observe
    /\ UNCHANGED <<travel, caller>>

\* result.error || 'Tool execution failed'
ErrorOf(toolResult) ==
    IF toolResult.error = "" THEN "Tool execution failed" ELSE toolResult.error

\* `Tool error: ${errorMessage}`
ToolError(errorMessage) == <<"Tool error: ", errorMessage>>

\* The wrapper without its try and catch: the exception leaves execute
Resume_NoCatch(i) ==
    /\ turn.pc[i] = "awaiting"
    /\ turn' = [turn EXCEPT
            !.pc[i] = IF "thrown" \in DOMAIN turn.returned[i]
                      THEN "rejected" ELSE "returned",
            !.returned[i] = IF "thrown" \in DOMAIN @ THEN @
                            ELSE IF @.success THEN @.data
                            ELSE [error |-> ErrorOf(@)]]
    /\ UNCHANGED <<state, database, travel, result, caller, history>>

\* createTool's execute after its await: result.data handed back on success,
\* {error} on a rejection, and {error: 'Tool error: ...'} from the catch when
\* the await threw
Resume(i) ==
    /\ turn.pc[i] = "awaiting"
    /\ turn' = [turn EXCEPT
            !.pc[i] = "returned",
            !.returned[i] = IF "thrown" \in DOMAIN @
                            THEN [error |-> ToolError(@.thrown)]
                            ELSE IF @.success THEN @.data
                            ELSE [error |-> ErrorOf(@)]]
    /\ UNCHANGED <<state, database, travel, result, caller, history>>

BatchNext ==
    \/ Invoke
    \/ \E i \in 1..Len(turn.calls) : Resume(i)

BatchSpec == BatchInit /\ [][BatchNext]_vars

\* ================================================================ claims
\* The risk tiers' costs as the tool descriptions state them
TierCost == [low |-> 1, medium |-> 2, high |-> 3, very_high |-> 4]

\* What the world data says of an area name; the data of these fields never changes
KnownArea(area) == area \in Areas
EntryCost(area) == TierCost[InitAreaDatabase[area].riskLevel]
Neighbours(area) ==
    {InitAreaDatabase[area].connections[i] :
        i \in 1..Len(InitAreaDatabase[area].connections)}

\* Each step of a run is one tool call, and result'.tool names the tool called.
\* The step is a call that was rejected and wrote nothing
RejectedUnchanged == ~result'.success /\ UNCHANGED <<state, database>>

\* The cost analyzeClue charges in the current state: 0 with the vibration_analyzer
\* held in crystal_forest, whose signal is the harmonic one, and 1 otherwise
AnalyzePrice ==
    IF Includes(state.artifacts, "vibration_analyzer") /\ state.position = "crystal_forest"
    THEN 0 ELSE 1

\* The cost decodeSignal charges in the current state: 1 with the signal_scanner held
DecodePrice == IF Includes(state.artifacts, "signal_scanner") THEN 1 ELSE 2

\* C1: energy is never negative, and a moveToArea, collectArtifact, analyzeClue or
\* decodeSignal call issued while energy is below the call's (possibly modified)
\* cost returns an error and leaves state and database as they were.
C1_EnergyNeverNegative ==
    /\ [](state.energy >= 0)
    /\ [][result'.tool = "moveToArea" =>
            \/ RejectedUnchanged
            \/ \A area \in AreaInputs :
                  (KnownArea(area) /\ state.energy < EntryCost(area)) => ~MoveToArea(area)]_vars
    /\ [][(result'.tool = "collectArtifact" /\ state.energy < 1) => RejectedUnchanged]_vars
    /\ [][(result'.tool = "analyzeClue" /\ state.energy < AnalyzePrice)
            => RejectedUnchanged]_vars
    /\ [][(result'.tool = "decodeSignal" /\ state.energy < DecodePrice)
            => RejectedUnchanged]_vars

\* A move turned down with some energy left, but less than the target's cost
C1_Witness ==
    /\ result.tool = "moveToArea"
    /\ ~result.success
    /\ result.error = "Insufficient energy"
    /\ state.energy > 0

\* C2: finalizeDiscovery called away from signal_source or with fewer than 3
\* decoded pairs returns an error and does not set completed (the flag is left as
\* it was); called at signal_source with 3 or more pairs it succeeds and
\* completed is true afterwards.
C2_FinalizeGuarded ==
    [][result'.tool = "finalizeDiscovery" =>
        IF state.position = "signal_source" /\ Len(state.decodedSignals) >= 3
        THEN result'.success /\ state'.completed
        ELSE /\ ~result'.success
             /\ state'.completed = state.completed
             /\ (~state.completed => ~state'.completed)]_vars

\* A finalizeDiscovery turned down at signal_source for want of a third pair
C2_Witness ==
    /\ result.tool = "finalizeDiscovery"
    /\ ~result.success
    /\ state.position = "signal_source"
    /\ Len(state.decodedSignals) = 2
    /\ ~state.completed

\* C3: once completed is true it is true after every later tool call.
C3_CompletionIrreversible == [][state.completed => state'.completed]_vars

\* A rejected finalizeDiscovery issued after the game was completed
C3_Witness ==
    /\ state.completed
    /\ result.tool = "finalizeDiscovery"
    /\ ~result.success

\* The unordered pairs of clue names that have a recipe
RecipePairs == {{key[1], key[2]} : key \in DOMAIN SignalDatabase}

\* The unordered pair of clue names of an entry of decodedSignals
PairOf(key) == {SplitName(key[1]), SplitName(key[2])}

DecodedPairs(decodedSignals) ==
    {PairOf(decodedSignals[i]) : i \in 1..Len(decodedSignals)}

GatheredNames == {SplitName(state.gatheredClues[i]) : i \in 1..Len(state.gatheredClues)}

\* arr' is arr with entries appended
Extends(longer, arr) ==
    Len(longer) >= Len(arr) /\ SubSeq(longer, 1, Len(arr)) = arr

NoDuplicates(arr) == \A i, j \in 1..Len(arr) : arr[i] = arr[j] => i = j

\* Lookup of a recipe does not depend on the order of the two clues, no unordered
\* pair is recorded twice in decodedSignals, and entries are never removed
C4_CommutativeOnceOnly ==
    /\ [](\A i, j \in 1..Len(state.gatheredClues) :
            LET a == state.gatheredClues[i]
                b == state.gatheredClues[j]
            IN  /\ HasRecipe(a, b) = HasRecipe(b, a)
                /\ HasRecipe(a, b) = ({SplitName(a), SplitName(b)} \in RecipePairs)
                /\ HasRecipe(a, b) => Recipe(a, b) = Recipe(b, a))
    /\ [](\A i, j \in 1..Len(state.decodedSignals) :
            PairOf(state.decodedSignals[i]) = PairOf(state.decodedSignals[j]) => i = j)
    /\ [][Extends(state'.decodedSignals, state.decodedSignals)]_vars

\* The inputs that name each clue
Named ==
    [name \in {SplitName(signal) : signal \in AllSignals} |->
        {signal \in SignalInputs : SplitName(signal) = name}]

\* The arguments of a decodeSignal call that name, in either order, a pair that
\* is already in decodedSignals
DecodedInputs ==
    UNION {LET first == Named[SplitName(state.decodedSignals[i][1])]
               second == Named[SplitName(state.decodedSignals[i][2])]
           IN  (first \X second) \cup (second \X first) :
           i \in 1..Len(state.decodedSignals)}

\* C4 as stated: the lookup is commutative, a pair is decoded at most once, and
\* every later attempt on a decoded pair, in either order, is rejected as already
\* decoded with nothing changed.
C4_AsStated ==
    /\ C4_CommutativeOnceOnly
    /\ [][result'.tool = "decodeSignal" =>
            \/ /\ RejectedUnchanged
               /\ result'.error = "Already decoded this combination"
            \/ \A args \in DecodedInputs : ~DecodeSignal(args[1], args[2])]_vars

\* C4 (amended): as stated, except that the later attempt is rejected as already
\* decoded only when energy covers the decode cost; with less energy it is
\* rejected for insufficient energy.  In both cases nothing changes.
C4_DecodeOnceOnly ==
    /\ C4_CommutativeOnceOnly
    /\ [][result'.tool = "decodeSignal" =>
            \/ /\ RejectedUnchanged
               /\ result'.error =
                       IF state.energy >= DecodePrice
                       THEN "Already decoded this combination"
                       ELSE "Insufficient energy"
            \/ \A args \in DecodedInputs : ~DecodeSignal(args[1], args[2])]_vars

\* A second attempt on a decoded pair, turned down as already decoded
C4_Witness ==
    /\ result.tool = "decodeSignal"
    /\ ~result.success
    /\ result.error = "Already decoded this combination"

\* The arguments of a decodeSignal call that must not be accepted: a name that no
\* gathered clue has, or two names without a recipe in either order
Undecodable(signal1, signal2) ==
    \/ SplitName(signal1) \notin GatheredNames
    \/ SplitName(signal2) \notin GatheredNames
    \/ {SplitName(signal1), SplitName(signal2)} \notin RecipePairs

\* C5: decodeSignal on a pair without a recipe in either order, or with a name
\* that resolves to no gathered clue (a clue paired with itself included), is
\* rejected with state unchanged; energy changes only in a decode that succeeds,
\* which records a pair of gathered clues that has a recipe and was not decoded.
C5_InvalidDecodeRejected ==
    [][result'.tool = "decodeSignal" =>
        /\ \/ RejectedUnchanged
           \/ \A signal1, signal2 \in SignalInputs :
                 Undecodable(signal1, signal2) => ~DecodeSignal(signal1, signal2)
        /\ state'.energy # state.energy =>
              /\ result'.success
              /\ state'.energy = state.energy - DecodePrice
              /\ Len(state'.decodedSignals) = Len(state.decodedSignals) + 1
              /\ LET key == state'.decodedSignals[Len(state'.decodedSignals)]
                 IN  /\ Includes(state.gatheredClues, key[1])
                     /\ Includes(state.gatheredClues, key[2])
                     /\ PairOf(key) \in RecipePairs
                     /\ PairOf(key) \notin DecodedPairs(state.decodedSignals)]_vars

\* A decode of two gathered clues that have no recipe, turned down
C5_Witness ==
    /\ result.tool = "decodeSignal"
    /\ ~result.success
    /\ result.error = "Incompatible signals"
    /\ Len(state.gatheredClues) >= 2

\* C6: a collectArtifact succeeds only for an artifact never collected before in
\* the run, listed at the current area and not held; it costs 1 energy and adds
\* the artifact's value to score; a collectArtifact that fails changes nothing.
C6_CollectOncePerArtifact ==
    [][result'.tool = "collectArtifact" =>
        IF result'.success
        THEN LET artifact == result'.data.artifact
             IN  /\ artifact \notin history.collected
                 /\ Includes(database[state.position].artifacts, artifact)
                 /\ ~Includes(state.artifacts, artifact)
                 /\ state'.energy = state.energy - 1
                 /\ state'.score = state.score + ArtifactValue[artifact]
                 /\ state'.artifacts = Append(state.artifacts, artifact)
                 /\ \A other \in history.collected : ~CollectArtifact(other)
        ELSE UNCHANGED <<state, database>>]_vars

\* A collectArtifact turned down at landing_zone after the energy_crystal was
\* collected there and used up
C6_Witness ==
    /\ result.tool = "collectArtifact"
    /\ ~result.success
    /\ state.position = "landing_zone"
    /\ "energy_crystal" \in history.collected
    /\ ~Includes(state.artifacts, "energy_crystal")

\* C7: analyzeClue never succeeds for a clue that is already gathered: a call
\* naming a gathered clue is rejected with state unchanged, a success appends a
\* signal that was not gathered, and gatheredClues never holds a signal twice.
C7_AnalyzeOncePerClue ==
    /\ [](NoDuplicates(state.gatheredClues))
    /\ [][Extends(state'.gatheredClues, state.gatheredClues)]_vars
    /\ [][result'.tool = "analyzeClue" =>
            /\ \/ RejectedUnchanged
               \/ \A signal \in SignalInputs :
                     SplitName(signal) \in GatheredNames => ~AnalyzeClue(signal)
            /\ result'.success =>
                  /\ ~Includes(state.gatheredClues, result'.data.signal)
                  /\ state'.gatheredClues =
                        Append(state.gatheredClues, result'.data.signal)]_vars

\* A second analyzeClue of a gathered clue, turned down
C7_Witness ==
    /\ result.tool = "analyzeClue"
    /\ ~result.success
    /\ result.error = "Already analyzed"

\* The exploration bonus of each risk tier
TierBonus == [low |-> 10, medium |-> 20, high |-> 30, very_high |-> 40]

\* What a successful moveToArea adds to score
MoveGain == state'.score - state.score

\* C8 as stated: for every location the bonus is awarded on the first successful
\* moveToArea into it, equals its entry cost x 10, and no re-entry adds to score.
C8_AsStated ==
    [][(result'.tool = "moveToArea" /\ result'.success) =>
        LET area == result'.data.newPosition
        IN  MoveGain = IF area \notin history.entered
                       THEN TierBonus[InitAreaDatabase[area].riskLevel]
                       ELSE 0]_vars

\* C8 (amended): for every location other than the start location landing_zone
\* the bonus is awarded on the first successful moveToArea into it and equals its
\* entry cost x 10; landing_zone is explored from init() on and never earns it;
\* no re-entry adds to score.
C8_ExploreBonusOnce ==
    [][(result'.tool = "moveToArea" /\ result'.success) =>
        LET area == result'.data.newPosition
        IN  MoveGain = IF area \notin history.entered /\ area # "landing_zone"
                       THEN TierBonus[InitAreaDatabase[area].riskLevel]
                       ELSE 0]_vars

\* A re-entry of an area other than landing_zone, which earned no bonus
C8_Witness ==
    /\ result.tool = "moveToArea"
    /\ result.success
    /\ result.data.newPosition # "landing_zone"
    /\ "exploreBonus" \notin DOMAIN result.data

\* C9: a successful moveToArea takes the target's tier cost from energy, adds 1
\* to stepCount and sets position to the target, explored before or not, and
\* leaves inventory, gatheredClues and decodedSignals alone; from the initial
\* state a move to a medium-risk neighbour gives energy 28, score 20 and the
\* target explored.
C9_MoveEffect ==
    [][(result'.tool = "moveToArea" /\ result'.success) =>
        LET area == result'.data.newPosition
        IN  /\ state'.energy = state.energy - EntryCost(area)
            /\ state'.stepCount = state.stepCount + 1
            /\ state'.position = area
            /\ state'.artifacts = state.artifacts
            /\ state'.gatheredClues = state.gatheredClues
            /\ state'.decodedSignals = state.decodedSignals
            /\ MoveToArea(area)
            /\ (state = InitState /\ InitAreaDatabase[area].riskLevel = "medium") =>
                  /\ state'.energy = 28
                  /\ state'.score = 20
                  /\ database'[area].explored
                  /\ Includes(state'.exploredAreas, area)]_vars

\* Scenario A: the first call of a run was a move to volcanic_plains
C9_Witness ==
    /\ result.tool = "moveToArea"
    /\ result.success
    /\ state.position = "volcanic_plains"
    /\ state.stepCount = 1
    /\ state.energy = 28

\* C10: moveToArea to an unknown area, to an area that is not in the current
\* area's connection list (the current area itself included) or with energy below
\* the target's tier cost is rejected with state and database unchanged; so
\* position only ever changes along an outgoing edge of the previous position.
C10_MoveRejected ==
    /\ [][result'.tool = "moveToArea" =>
            \/ RejectedUnchanged
            \/ \A area \in AreaInputs :
                  (\/ ~KnownArea(area)
                   \/ area \notin Neighbours(state.position)
                   \/ area = state.position
                   \/ state.energy < EntryCost(area)) => ~MoveToArea(area)]_vars
    /\ [][state'.position # state.position =>
            state'.position \in Neighbours(state.position)]_vars

\* A move to a known area that the current area does not lead to, turned down
C10_Witness ==
    /\ result.tool = "moveToArea"
    /\ ~result.success
    /\ result.error = "Not connected to current position"

\* C11: a successful decodeSignal takes 1 energy when signal_scanner is in the
\* inventory at that call and 2 otherwise, and reports that cost; the discount
\* is looked up at every call, so within one run a decode made before the scanner
\* is collected costs 2 and one made after it costs 1.
C11_DecodeCostPerCall ==
    [][(result'.tool = "decodeSignal" /\ result'.success) =>
        LET cost == IF Includes(state.artifacts, "signal_scanner") THEN 1 ELSE 2
        IN  /\ state'.energy = state.energy - cost
            /\ result'.data.energyCost = cost]_vars

\* A run with a decode paid 2 before the scanner was collected and a decode paid
\* 1 after
C11_Witness ==
    /\ result.tool = "decodeSignal"
    /\ result.success
    /\ result.data.energyCost = 1
    /\ history.decodeCosts = {1, 2}
    /\ "signal_scanner" \in history.collected

\* The efficiency bonus of a score-per-step ratio: 200 above 100, 100 above 50
RatioBonus(score, steps) ==
    IF steps > 0 /\ score > 100 * steps THEN 200
    ELSE IF steps > 0 /\ score > 50 * steps THEN 100
    ELSE 0

\* C12: a successful finalizeDiscovery reports finalScore = R + 500 + energy x 10
\* + E, where R is the running score before the call and E is the efficiency
\* bonus of the ratio of R, without the completion bonus, to the step count
\* (counted with or without the finalizing call itself).
C12_FinalScoreFormula ==
    [][(result'.tool = "finalizeDiscovery" /\ result'.success) =>
        \E steps \in {state.stepCount, state'.stepCount} :
            result'.data.finalScore =
                state.score + 500 + state.energy * 10 + RatioBonus(state.score, steps)]_vars

\* C13 as stated: every rejected tool call, a rejected finalizeDiscovery and a
\* rejected useEnergyCrystal included, leaves every field of the game state,
\* stepCount too, and the world database as they were.
C13_AsStated == [][~result'.success => UNCHANGED <<state, database>>]_vars

\* C13 (amended): every rejected call of a tool other than finalizeDiscovery
\* leaves the game state and the world database as they were; a rejected
\* finalizeDiscovery adds 1 to stepCount and leaves every other field and the
\* database as they were.
C13_RejectionsChangeNothing ==
    [][~result'.success =>
        /\ database' = database
        /\ state' = IF result'.tool = "finalizeDiscovery"
                    THEN [state EXCEPT !.stepCount = @ + 1]
                    ELSE state]_vars

\* A useEnergyCrystal turned down in a run that has already counted steps
C13_Witness ==
    /\ result.tool = "useEnergyCrystal"
    /\ ~result.success
    /\ state.stepCount > 0

\* C14: finalizeDiscovery is rejected exactly when the position is not
\* signal_source or fewer than 3 pairs are decoded; the rejected call adds
\* exactly 1 to stepCount and changes nothing else: completed, score, energy,
\* position, inventory, decodedSignals and bonusesEarned keep their values, and a
\* game that was not completed stays not completed.
C14_RejectedFinalizeCountsStep ==
    [][result'.tool = "finalizeDiscovery" =>
        /\ ~result'.success <=>
              (state.position # "signal_source" \/ Len(state.decodedSignals) < 3)
        /\ ~result'.success =>
              /\ state'.stepCount = state.stepCount + 1
              /\ state'.completed = state.completed
              /\ state'.score = state.score
              /\ state'.energy = state.energy
              /\ state'.position = state.position
              /\ state'.artifacts = state.artifacts
              /\ state'.decodedSignals = state.decodedSignals
              /\ state'.bonusesEarned = state.bonusesEarned
              /\ state' = [state EXCEPT !.stepCount = state.stepCount + 1]
              /\ database' = database]_vars

\* finalizeDiscovery as the first call of a run: turned down at landing_zone,
\* one step counted, everything else as constructed
C14_Witness ==
    /\ result.tool = "finalizeDiscovery"
    /\ ~result.success
    /\ state = [InitState EXCEPT !.stepCount = 1]
    /\ database = InitAreaDatabase

\* The places that hold artifacts: the slots of the areas' artifact lists and of
\* the inventory
Places ==
    UNION {{<<area, i>> : i \in 1..Len(database[area].artifacts)} : area \in Areas}
        \cup {<<"inventory", i>> : i \in 1..Len(state.artifacts)}

HeldAt(place, artifact) ==
    IF place[1] = "inventory"
    THEN state.artifacts[place[2]] = artifact
    ELSE database[place[1]].artifacts[place[2]] = artifact

\* C16: in every reachable state each artifact is held in at most one place, an
\* area's list or the inventory, and in no place twice; a successful
\* collectArtifact takes it off the current area's list and puts it into the
\* inventory; no step adds an artifact to an area's list.
C16_ArtifactOwnership ==
    /\ [](\A artifact \in Artifacts :
            Cardinality({place \in Places : HeldAt(place, artifact)}) <= 1)
    /\ [][(result'.tool = "collectArtifact" /\ result'.success) =>
            LET artifact == result'.data.artifact
            IN  /\ Includes(database[state.position].artifacts, artifact)
                /\ ~Includes(database'[state.position].artifacts, artifact)
                /\ Includes(state'.artifacts, artifact)]_vars
    /\ [][\/ database' = database
          \/ \A area \in Areas : \A artifact \in Artifacts :
                Includes(database'[area].artifacts, artifact) =>
                    Includes(database[area].artifacts, artifact)]_vars

\* The signal_scanner was just collected: it is in the inventory and no longer
\* on landing_zone's list
C16_Witness ==
    /\ result.tool = "collectArtifact"
    /\ result.success
    /\ result.data.artifact = "signal_scanner"
    /\ Includes(state.artifacts, "signal_scanner")
    /\ ~Includes(database["landing_zone"].artifacts, "signal_scanner")

\* arr without its entries equal to x
Without(arr, x) == SelectSeq(arr, LAMBDA entry : entry # x)

\* C17: useEnergyCrystal succeeds exactly when energy_crystal is in the inventory
\* and is an error otherwise; the success removes the crystal from the inventory
\* and nothing else, adds exactly 5 to energy and 1 to stepCount, and leaves
\* score, position, gatheredClues and decodedSignals as they were.
C17_UseEnergyCrystal ==
    [][result'.tool = "useEnergyCrystal" =>
        /\ result'.success <=> Includes(state.artifacts, "energy_crystal")
        /\ result'.success =>
              /\ ~Includes(state'.artifacts, "energy_crystal")
              /\ state'.artifacts = Without(state.artifacts, "energy_crystal")
              /\ state'.energy = state.energy + 5
              /\ state'.stepCount = state.stepCount + 1
              /\ state'.score = state.score
              /\ state'.position = state.position
              /\ state'.gatheredClues = state.gatheredClues
              /\ state'.decodedSignals = state.decodedSignals]_vars

\* The crystal was just used: it has left the inventory, in which another
\* artifact remains
C17_Witness ==
    /\ result.tool = "useEnergyCrystal"
    /\ result.success
    /\ "energy_crystal" \in history.collected
    /\ ~Includes(state.artifacts, "energy_crystal")
    /\ Includes(state.artifacts, "signal_scanner")

\* C18: once finalizeDiscovery has succeeded, getFinalScore() returns the same
\* value after every further tool call.
C18_FinalScoreFrozen ==
    [][state.completed => GetFinalScore(state') = GetFinalScore(state)]_vars

\* C19: completed is set by a successful finalizeDiscovery only, and a
\* finalizeDiscovery called after the game was completed adds nothing to score
\* and appends nothing to bonusesEarned.
C19_FinalizedOnce ==
    /\ [][state'.completed # state.completed =>
            (result'.tool = "finalizeDiscovery" /\ result'.success)]_vars
    /\ [][(state.completed /\ result'.tool = "finalizeDiscovery") =>
            /\ state'.score = state.score
            /\ state'.bonusesEarned = state.bonusesEarned]_vars

\* C20: init() called after any sequence of tool calls yields the state of a
\* freshly constructed game.  Decoder: position landing_zone, energy 30, empty
\* inventory, clues and decoded pairs, score 0, stepCount 0, completed false,
\* every area's artifact list and explored flag as constructed.  Travel:
\* newyork, budget 2000, visited = [newyork], stepCount 0.  A second init()
\* changes nothing.
C20_InitResets ==
    [][result'.tool = "init" =>
        IF caller.game = "decoder"
        THEN /\ state'.position = "landing_zone"
             /\ state'.energy = 30
             /\ state'.artifacts = <<>>
             /\ state'.gatheredClues = <<>>
             /\ state'.decodedSignals = <<>>
             /\ state'.score = 0
             /\ state'.stepCount = 0
             /\ ~state'.completed
             /\ state' = InitState
             /\ \A area \in Areas :
                    /\ database'[area].artifacts = InitAreaDatabase[area].artifacts
                    /\ database'[area].explored = (area = "landing_zone")
             /\ database' = InitAreaDatabase
        ELSE /\ travel'.currentCity = "newyork"
             /\ travel'.budget = 2000
             /\ travel'.visitedCities = <<"newyork">>
             /\ travel'.stepCount = 0
             /\ travel' = TravelInitState]_vars

\* init() has reset a decoder game in which areas were entered and artifacts
\* collected
C20_Witness ==
    /\ result.tool = "init"
    /\ history.entered # {}
    /\ history.collected # {}
    /\ state = InitState
    /\ database = InitAreaDatabase

\* ------------------------------------------------------------------- C15
\* The game after one call made alone, for the calls of BatchCalls: what the
\* call's check decides in game g and, when it passes, what the call writes.
AfterMove(g, area) ==
    LET energyCost == RiskCosts[g.database[area].riskLevel]
        isNew == ~g.database[area].explored
    IN  IF \/ ~Includes(g.database[g.state.position].connections, area)
           \/ g.state.energy < energyCost
        THEN g
        ELSE [state |-> [g.state EXCEPT
                    !.energy = @ - energyCost,
                    !.stepCount = @ + 1,
                    !.position = area,
                    !.exploredAreas = IF isNew THEN Append(@, area) ELSE @,
                    !.score = IF isNew THEN @ + 10 * energyCost ELSE @],
              database |-> [g.database EXCEPT ![area].explored = TRUE]]

AfterCollect(g, artifact) ==
    LET here == g.database[g.state.position].artifacts
    IN  IF \/ g.state.energy < 1
           \/ ~Includes(here, artifact)
           \/ Includes(g.state.artifacts, artifact)
        THEN g
        ELSE [state |-> [g.state EXCEPT
                    !.energy = @ - 1,
                    !.stepCount = @ + 1,
                    !.artifacts = Append(@, artifact),
                    !.score = @ + ArtifactValue[artifact]],
              database |-> [g.database EXCEPT ![g.state.position].artifacts =
                                SelectSeq(@, LAMBDA a : a # artifact)]]

AfterAnalyze(g, signal) ==
    LET signals == g.database[g.state.position].signals
        found == Find(signals, Matching(signals, signal))
        energyCost ==
            IF /\ Includes(g.state.artifacts, "vibration_analyzer")
               /\ \E i \in 1..Len(signals) : IsHarmonicText(signals[i])
            THEN 0 ELSE 1
    IN  IF \/ g.state.energy < energyCost
           \/ found = Undefined
           \/ Includes(g.state.gatheredClues, found)
        THEN g
        ELSE [g EXCEPT !.state.energy = @ - energyCost,
                       !.state.stepCount = @ + 1,
                       !.state.gatheredClues = Append(@, found),
                       !.state.score = @ + 30]

AfterCall(g, call) ==
    IF call.args = <<>> THEN g
    ELSE IF call.tool = "moveToArea" THEN AfterMove(g, call.args[1])
    ELSE IF call.tool = "collectArtifact" THEN AfterCollect(g, call.args[1])
    ELSE AfterAnalyze(g, call.args[1])

\* The calls applied one at a time in the order presented
RECURSIVE OneAtATime(_, _)
OneAtATime(g, calls) ==
    IF calls = <<>> THEN g
    ELSE AfterCall(OneAtATime(g, SubSeq(calls, 1, Len(calls) - 1)),
                   calls[Len(calls)])

\* The calls of the turn whose execute function has been called
Called == {i \in 1..Len(turn.calls) : turn.pc[i] # "queued"}

StatedEfficiencyBonus(game) ==
    IF game.stepCount = 0 THEN 0
    ELSE IF game.score > 100 * game.stepCount THEN 200
    ELSE IF game.score > 50 * game.stepCount THEN 100
    ELSE 0

StatedFinalScore(game) ==
    game.score + game.energy * 10 + StatedEfficiencyBonus(game)
        + 50 * Len(game.hypotheses)

\* C21: in every reachable decoder state getFinalScore() is
\* score + energy x 10 + E + 50 x |hypotheses| with E = 200 if
\* score > 100 x stepCount, 100 if score > 50 x stepCount, else 0, and 0 at
\* stepCount = 0; a call of getFinalScore() returns that value and leaves the
\* state and the area database as they were.
C21_GetFinalScore ==
    /\ [](caller.game = "decoder" => GetFinalScore(state) = StatedFinalScore(state))
    /\ [][(caller.game = "decoder" /\ result'.tool = "getFinalScore") =>
            /\ result'.data.finalScore = StatedFinalScore(state)
            /\ UNCHANGED <<state, database>>]_vars

\* getFinalScore() was just read in a state whose score per step lies strictly
\* between 50 and 51: the 100 bonus is in the value read
C21_Witness ==
    /\ caller.game = "decoder"
    /\ result.tool = "getFinalScore"
    /\ state.stepCount > 0
    /\ state.score \div state.stepCount = 50
    /\ state.score % state.stepCount > 0
    /\ result.data.finalScore = state.score + state.energy * 10 + 100

\* ------------------------------------------------------------------- C22
\* C22: whatever a tool's execute did, the wrapper built by createTool hands a
\* value back and never lets a fault out: a call whose execute threw returns
\* {error: 'Tool error: <message>'}, a call whose execute rejected the request
\* (success = false) returns {error: <its message>}, and a call that succeeded
\* returns its data.
C22_FaultsBecomeErrorValues ==
    /\ [](\A i \in 1..Len(turn.calls) :
            turn.pc[i] \in {"queued", "awaiting", "returned"})
    /\ [][\A i \in 1..Len(turn.calls) :
            turn.pc[i] = "awaiting" /\ turn'.pc[i] # "awaiting" =>
                LET settled == turn.returned[i]
                    value == turn'.returned[i]
                IN  /\ turn'.pc[i] = "returned"
                    /\ "thrown" \in DOMAIN settled =>
                            value = [error |-> <<"Tool error: ", settled.thrown>>]
                    /\ "thrown" \notin DOMAIN settled /\ ~settled.success =>
                            value = [error |-> settled.error]
                    /\ "thrown" \notin DOMAIN settled /\ settled.success =>
                            value = settled.data]_vars

\* Of two calls dispatched together and both returned, the first threw inside
\* execute and came back as a 'Tool error' value, the second was rejected and
\* came back as an error value of its own
C22_Witness ==
    /\ turn.calls = <<Call("analyzeClue", <<>>), Collect("vibration_analyzer")>>
    /\ turn.pc = <<"returned", "returned">>
    /\ turn.returned[1] =
            [error |-> <<"Tool error: ",
                         "Cannot read properties of undefined (reading 'split')">>]
    /\ turn.returned[2] = [error |-> "Artifact not available here"]
    /\ state = InitState

\* ------------------------------------------------------------------- C23
\* The cities that occur in a list of visited cities, each counted once
VisitedSet(game) == {game.visitedCities[i] : i \in 1..Len(game.visitedCities)}

RECURSIVE SumOfValues(_)
SumOfValues(cities) ==
    IF cities = {} THEN 0
    ELSE LET city == CHOOSE c \in cities : TRUE
         IN  CityValue[city] + SumOfValues(cities \ {city})

AllRequiredVisited(game) ==
    {"paris", "tokyo", "sydney", "rio", "capetown"} \subseteq VisitedSet(game)

\* The cities of a set listed in some order after the start city
RECURSIVE Listed(_)
Listed(cities) ==
    IF cities = {} THEN <<"newyork">>
    ELSE LET city == CHOOSE c \in cities : TRUE
         IN  Append(Listed(cities \ {city}), city)

StatedTravelScore(game) ==
    SumOfValues(VisitedSet(game))
    + 5 * (game.budget \div 100)
    + (IF AllRequiredVisited(game) THEN 500 ELSE 0)

\* C23: in every reachable state of the travel game getFinalScore() is the sum
\* of the values of the visited cities (the start city among them) plus
\* 5 x floor(budget / 100), plus 500 exactly when paris, tokyo, sydney, rio and
\* capetown are all visited; the step count has no part in it; isCompleted() is
\* true exactly when the 500 is included; the same holds of the two methods on
\* the reached budget with any set of cities visited; and a read returns these
\* values and changes nothing.
C23_TravelFinalScore ==
    /\ [](caller.game = "travel" =>
            /\ "newyork" \in VisitedSet(travel)
            /\ TravelGetFinalScore(travel) = StatedTravelScore(travel)
            /\ TravelIsCompleted(travel) <=> AllRequiredVisited(travel)
            /\ \A cities \in SUBSET (Cities \ {"newyork"}) :
                    LET game == [travel EXCEPT !.visitedCities = Listed(cities)]
                    IN  /\ TravelGetFinalScore(game) = StatedTravelScore(game)
                        /\ TravelIsCompleted(game) <=> AllRequiredVisited(game)
            /\ \A steps \in 0..MAX_STEPS :
                    TravelGetFinalScore([travel EXCEPT !.stepCount = steps])
                        = TravelGetFinalScore(travel))
    /\ [][(caller.game = "travel" /\ result'.tool = "getFinalScore") =>
            /\ result'.data.finalScore = TravelGetFinalScore(travel)
            /\ result'.data.isCompleted = TravelIsCompleted(travel)
            /\ UNCHANGED travel]_vars

\* The score was just read after newyork -> rio -> capetown: 50 + 130 + 110 for
\* the cities and 5 x floor(350 / 100) for the 350 left of the budget
C23_Witness ==
    /\ caller.game = "travel"
    /\ result.tool = "getFinalScore"
    /\ travel.visitedCities = <<"newyork", "rio", "capetown">>
    /\ travel.budget = 350
    /\ result.data.finalScore = 50 + 130 + 110 + 15
    /\ ~result.data.isCompleted

\* ------------------------------------------------------------------- C24
\* The route keys that the claim says are refused in the current state
Refused(routeKey) ==
    \/ routeKey \notin DOMAIN Routes
    \/ routeKey[1] # travel.currentCity
    \/ Routes[routeKey].cost > travel.budget
    \/ Routes[routeKey].time > MAX_STEPS - travel.stepCount

\* C24: travel(routeKey) with a key that is unknown, that does not start at the
\* current city, that costs more than the budget left or that needs more steps
\* than are left is rejected and changes no field of the state; the budget is
\* never negative.
C24_TravelRejected ==
    /\ [](travel.budget >= 0)
    /\ [][result'.tool = "travel" =>
            \/ ~result'.success /\ UNCHANGED travel
            \/ \A routeKey \in RouteInputs : Refused(routeKey) => ~Travel(routeKey)]_vars

\* From tokyo with 800 left, the 950 flight to capetown was just refused: the
\* traveller is still in tokyo with 800
C24_Witness ==
    /\ result = ErrorResult("travel", "Insufficient budget")
    /\ travel.currentCity = "tokyo"
    /\ travel.budget = 800
    /\ travel.budget < Routes[RouteKey("tokyo", "capetown", "")].cost
    /\ travel.stepCount = 2

\* ------------------------------------------------------------------- C25
\* C25: the connection lists are symmetric (B in A's list implies A in B's
\* list); a successful moveToArea from A to B leaves the player where A is in
\* the connection list; and a moveToArea rejected for any reason other than
\* insufficient energy never named an area from which the current position can
\* be entered, so the way back is refused for lack of energy only.
C25_WalkingBack ==
    /\ [](\A A, B \in Areas :
            Includes(database[A].connections, B) => Includes(database[B].connections, A))
    /\ [][(result'.tool = "moveToArea" /\ result'.success) =>
            /\ Includes(database[state.position].connections, state'.position)
            /\ Includes(database'[state'.position].connections, state.position)]_vars
    /\ [][(result'.tool = "moveToArea" /\ ~result'.success
                /\ result'.error # "Insufficient energy") =>
            \A A \in Areas :
                Includes(database[A].connections, state.position) => ~MoveToArea(A)]_vars

\* The player has walked back into the landing zone from an area entered
\* earlier in the run
C25_Witness ==
    /\ result.tool = "moveToArea"
    /\ result.success
    /\ result.data.newPosition = "landing_zone"
    /\ state.position = "landing_zone"
    /\ history.entered \cap {"volcanic_plains", "crystal_forest"} # {}

\* ------------------------------------------------------------------- C26
\* C26: a successful analyzeClue takes 0 energy exactly when the
\* vibration_analyzer is in the inventory at the call and a signal of the
\* current area matches the harmonic predicate, and 1 otherwise, and reports the
\* energy it took; an analyzeClue is refused for lack of energy only when that
\* cost exceeds the energy; of the areas of the world crystal_forest alone has a
\* signal that matches.
C26_AnalyzeCost ==
    /\ [](\A area \in Areas :
            (\E i \in 1..Len(database[area].signals) :
                IsHarmonicText(database[area].signals[i]))
            <=> area = "crystal_forest")
    /\ [][result'.tool = "analyzeClue" =>
            LET free == /\ Includes(state.artifacts, "vibration_analyzer")
                        /\ state.position = "crystal_forest"
                cost == IF free THEN 0 ELSE 1
            IN  /\ result'.success =>
                        /\ state'.energy = state.energy - cost
                        /\ result'.data.energyCost = cost
                /\ (~result'.success /\ result'.error = "Insufficient energy") =>
                        state.energy < cost]_vars

\* Two analyses in one run: one in crystal_forest with the analyzer held, which
\* took no energy, and behind it the clue of another area, which took 1
C26_Witness ==
    /\ result.tool = "analyzeClue"
    /\ result.success
    /\ result.data.energyCost = 0
    /\ state.position = "crystal_forest"
    /\ Includes(state.artifacts, "vibration_analyzer")
    /\ Len(state.gatheredClues) = 2
    /\ state.gatheredClues[1] = BasicFrequency

\* ------------------------------------------------------------------- C27
\* The signals of the current area that an input names: by the short name
\* before ':' or as the same whole string
ListedHere(input) ==
    {signal \in AllSignals :
        /\ Includes(database[state.position].signals, signal)
        /\ (signal[1] = input[1] \/ signal = input)}

\* C27: analyzeClue never succeeds for an input that names no signal of the
\* current area; a success appends to gatheredClues the whole string of a signal
\* of the current area, takes the cost (0 or 1) from energy, adds exactly 30 to
\* score and 1 to stepCount, and leaves the rest of the state and the areas
\* alone; every gathered clue is a signal of an area in exploredAreas.
C27_AnalyzeEffect ==
    /\ [](\A i \in 1..Len(state.gatheredClues) :
            \E j \in 1..Len(state.exploredAreas) :
                Includes(database[state.exploredAreas[j]].signals, state.gatheredClues[i]))
    /\ [][result'.tool = "analyzeClue" =>
            /\ \/ RejectedUnchanged
               \/ \A input \in SignalInputs : ListedHere(input) = {} => ~AnalyzeClue(input)
            /\ result'.success =>
                \E signal \in AllSignals :
                    /\ Includes(database[state.position].signals, signal)
                    /\ result'.data.signal = signal
                    /\ state'.gatheredClues = Append(state.gatheredClues, signal)
                    /\ result'.data.energyCost \in {0, 1}
                    /\ state' = [state EXCEPT
                            !.gatheredClues = Append(@, signal),
                            !.energy = @ - result'.data.energyCost,
                            !.score = @ + 30,
                            !.stepCount = @ + 1]
                    /\ database' = database]_vars

\* The clue of the hidden lake was just gathered by its short name: the whole
\* string is the last gathered clue, and the lake is among the explored areas
C27_Witness ==
    /\ result.tool = "analyzeClue"
    /\ result.success
    /\ state.position = "hidden_lake"
    /\ state.gatheredClues # <<>>
    /\ state.gatheredClues[Len(state.gatheredClues)] = WaveRipple
    /\ Includes(state.exploredAreas, "hidden_lake")

\* ------------------------------------------------------------------- C28
\* C28: state.score changes only in a successful moveToArea, collectArtifact,
\* analyzeClue or decodeSignal; exploreConnections, planOptimalRoute,
\* useEnergyCrystal, finalizeDiscovery and every rejected call leave it as it
\* was; and it never decreases.
C28_ScoreOnlyFromBonuses ==
    [][/\ state'.score >= state.score
       /\ state'.score # state.score =>
            /\ result'.success
            /\ result'.tool \in {"moveToArea", "collectArtifact", "analyzeClue",
                                 "decodeSignal"}]_vars

\* ------------------------------------------------------------------- C29
\* C29: in the decoder game every successful tool call adds exactly 1 to
\* stepCount, those that take no energy included; a rejected moveToArea,
\* collectArtifact, analyzeClue, decodeSignal or useEnergyCrystal leaves
\* stepCount as it was; stepCount never decreases; and the engine sets no limit
\* to it: whatever the count, a further call that counts as a step is accepted.
C29_StepAccounting ==
    /\ [][/\ state'.stepCount >= state.stepCount
          /\ (caller.game = "decoder" /\ result'.success) =>
                state'.stepCount = state.stepCount + 1
          /\ (~result'.success
                /\ result'.tool \in {"moveToArea", "collectArtifact", "analyzeClue",
                                     "decodeSignal", "useEnergyCrystal"}) =>
                state'.stepCount = state.stepCount]_vars
    /\ [](ENABLED (/\ ExploreConnections
                   /\ result'.success
                   /\ state'.stepCount = state.stepCount + 1
                   /\ UNCHANGED <<travel, turn, caller, history>>))

\* Three calls that take no energy have each counted as a step: the third, a
\* planOptimalRoute, was just made with the energy still at 30
C29_Witness ==
    /\ result.tool = "planOptimalRoute"
    /\ result.success
    /\ state.energy = 30
    /\ state.position = "landing_zone"
    /\ state.stepCount = 3

\* ------------------------------------------------------------------- C30
\* The tier the claim gives to a final score
StatedRanking(finalScore) ==
    CASE finalScore > 1500 -> "MASTER DECODER"
      [] finalScore > 1000 /\ finalScore <= 1500 -> "EXPERT DECODER"
      [] finalScore > 600 /\ finalScore <= 1000 -> "SKILLED DECODER"
      [] OTHER -> "NOVICE DECODER"

\* The word by which a message names a ranking
RankWord ==
    ("MASTER DECODER" :> "MASTER") @@ ("EXPERT DECODER" :> "EXPERT")
        @@ ("SKILLED DECODER" :> "SKILLED") @@ ("NOVICE DECODER" :> "NOVICE")

\* Final scores on both sides of every threshold
ScoreSamples ==
    {0, 599, 600, 601, 999, 1000, 1001, 1270, 1499, 1500, 1501, 1770, 2500}

\* C30: the ranking of a successful finalizeDiscovery is decided by the
\* finalScore it reports and by nothing else: MASTER DECODER above 1500, EXPERT
\* DECODER above 1000 up to 1500, SKILLED DECODER above 600 up to 1000, NOVICE
\* DECODER otherwise; the rank in the message is the same tier; the same holds
\* of the ranking computed for final scores around every threshold.
C30_Ranking ==
    /\ [](\A finalScore \in ScoreSamples :
            /\ Ranking(finalScore) = StatedRanking(finalScore)
            /\ FinalizeMessage(finalScore).rank = RankWord[Ranking(finalScore)])
    /\ [][(result'.tool = "finalizeDiscovery" /\ result'.success) =>
            LET report == result'.data
            IN  /\ report.ranking = StatedRanking(report.finalScore)
                /\ report.message.rank = RankWord[report.ranking]
                /\ report.message.finalScore = report.finalScore]_vars

\* A second finalizeDiscovery on the completed game has just reported a final
\* score above 1500 and ranked it MASTER DECODER, the first having ranked
\* EXPERT DECODER
C30_Witness ==
    /\ result.tool = "finalizeDiscovery"
    /\ result.success
    /\ result.data.finalScore > 1500
    /\ result.data.ranking = "MASTER DECODER"
    /\ result.data.message.rank = "MASTER"

\* ------------------------------------------------------------------- C31
\* The calls of Finished that the caller has yet to make, some still to come
LeftOfFinished ==
    /\ caller.pending # <<>>
    /\ Len(caller.pending) <= Len(Finished)
    /\ caller.pending =
            SubSeq(Finished, Len(Finished) - Len(caller.pending) + 1, Len(Finished))

\* C31: the decoder game can be won.  The thirteen calls of Finished, made one
\* after the other from the initial state (landing_zone, energy 30), are each
\* accepted, and the last of them, finalizeDiscovery, leaves completed = true:
\* 'completed = false' is not an invariant.
C31_Winnable ==
    /\ [](Len(caller.pending) = Len(Finished) =>
            (LeftOfFinished /\ state = InitState /\ database = InitAreaDatabase))
    /\ [][LeftOfFinished =>
            /\ result'.success
            /\ Len(caller.pending) = 1 =>
                    (result'.tool = "finalizeDiscovery" /\ state'.completed)]_vars

\* The game won by the calls of Finished and nothing else: completed after
\* thirteen steps
C31_Witness ==
    /\ state.completed
    /\ state.stepCount = Len(Finished)
    /\ state.position = "signal_source"
    /\ caller.pending = <<>>


\* ------------------------------------------------------------------- C32
\* The state a travel call leaves the game in: the handler's writes when it
\* accepts the call, the same state when it rejects it
AfterTravel(game, routeKey) ==
    IF routeKey \notin DOMAIN Routes \/ ~StartsFrom(routeKey, game.currentCity)
    THEN game
    ELSE LET route == Routes[routeKey]
             destination == Destination(routeKey)
             visited == Includes(game.visitedCities, destination)
         IN  IF game.budget < route.cost \/ game.stepCount + route.time > MAX_STEPS
             THEN game
             ELSE [game EXCEPT
                     !.budget = @ - route.cost,
                     !.totalSpent = @ + route.cost,
                     !.stepCount = @ + route.time,
                     !.currentCity = destination,
                     !.visitedCities = IF visited THEN @ ELSE Append(@, destination),
                     !.score = IF visited THEN @ ELSE @ + CityValue[destination]]

\* The states some sequence of travel calls leads to from the states given
RECURSIVE TravelClosure(_)
TravelClosure(games) ==
    LET further == games \cup {AfterTravel(game, routeKey) :
                                    game \in games, routeKey \in DOMAIN Routes}
    IN  IF further = games THEN games ELSE TravelClosure(further)

\* Every state a sequence of travel calls reaches from the initial state
\* (newyork, budget 2000, no step taken)
TravelStates == TravelClosure({TravelInitState})

\* The travel game of the model is in one of these states at every moment, and
\* each of them is one the model's game reaches
TravelStatesAreTheGame == caller.game = "travel" => travel \in TravelStates

\* C32: the travel game can be completed.  Some sequence of travel calls from
\* the initial state (newyork, budget 2000, 8 steps) leads to a state where
\* isCompleted() is true, all five required cities visited, and getFinalScore()
\* holds the 500 completion bonus.
C32_Completable ==
    (caller.game = "travel" /\ travel = TravelInitState) =>
        \E game \in TravelClosure({travel}) :
            /\ TravelIsCompleted(game)
            /\ TravelGetFinalScore(game) =
                    CityScore(game.visitedCities) + BudgetBonus(game.budget) + 500


\* ------------------------------------------------------------------- C33
\* C33: the finalScore in the payload of a successful finalizeDiscovery equals
\* what getFinalScore() returns immediately after the call, in every reachable
\* state.
C33_PayloadIsFinalScore ==
    [][(result'.tool = "finalizeDiscovery" /\ result'.success) =>
            result'.data.finalScore = GetFinalScore(state')]_vars

\* ------------------------------------------------------------------- C34
\* The part of getFinalScore() that the hypotheses account for
ReflectionBonus(game) ==
    GetFinalScore(game) - GetFinalScore([game EXCEPT !.hypotheses = <<>>])

\* C34: no tool writes hypotheses.  The list is empty in every reachable state,
\* no call changes it (a successful finalizeDiscovery does not record its
\* finalHypothesis), and the reflection bonus of getFinalScore() is always 0,
\* though one recorded hypothesis would be worth 50.
C34_HypothesesNeverWritten ==
    /\ [](/\ state.hypotheses = <<>>
          /\ ReflectionBonus(state) = 0
          /\ ReflectionBonus([state EXCEPT !.hypotheses = <<"finalHypothesis">>]) = 50)
    /\ [][state'.hypotheses = state.hypotheses]_vars

C34_Witness ==
    /\ result.tool = "finalizeDiscovery"
    /\ result.success
    /\ state.completed
    /\ state.hypotheses = <<>>
    /\ ReflectionBonus(state) = 0

\* ------------------------------------------------------------------- C35
\* C35: the bookkeeping of exploration.  exploredAreas holds no area twice; an
\* area is in exploredAreas exactly when its explored flag is true; the current
\* position is an area of the world and is in exploredAreas; and no call turns
\* an explored flag back to false or takes an area out of exploredAreas.
C35_ExplorationBookkeeping ==
    /\ [](/\ \A i, j \in 1..Len(state.exploredAreas) :
                state.exploredAreas[i] = state.exploredAreas[j] => i = j
          /\ \A area \in Areas :
                Includes(state.exploredAreas, area) <=> database[area].explored
          /\ \A i \in 1..Len(state.exploredAreas) : state.exploredAreas[i] \in Areas
          /\ state.position \in Areas
          /\ Includes(state.exploredAreas, state.position))
    /\ [][\A area \in Areas :
            /\ database[area].explored => database'[area].explored
            /\ Includes(state.exploredAreas, area) =>
                    Includes(state'.exploredAreas, area)]_vars

\* An area entered a second time, with others explored in between
C35_Witness ==
    /\ result.tool = "moveToArea"
    /\ result.success
    /\ "exploreBonus" \notin DOMAIN result.data
    /\ state.position = "crystal_forest"
    /\ Len(state.exploredAreas) >= 3
    /\ state.exploredAreas[Len(state.exploredAreas)] # state.position

\* ------------------------------------------------------------------- C36
\* The energy_crystal is neither in the inventory nor in any area
CrystalGone ==
    /\ ~Includes(state.artifacts, "energy_crystal")
    /\ \A area \in Areas : ~Includes(database[area].artifacts, "energy_crystal")

\* C36: useEnergyCrystal succeeds at most once in a run.  A successful call
\* takes the crystal, until then in an area or in the inventory, out of both;
\* once out of both it stays out, so it cannot be collected or used again.
\* The energy is at most 35 in every state, and at most 30 as long as the
\* crystal has not been used.
C36_CrystalOnce ==
    /\ [](state.energy <= 35 /\ (~CrystalGone => state.energy <= 30))
    /\ [][/\ (result'.tool = "useEnergyCrystal" /\ result'.success) =>
                (~CrystalGone /\ CrystalGone')
          /\ CrystalGone =>
                /\ CrystalGone'
                /\ ~(result'.tool = "useEnergyCrystal" /\ result'.success)
                /\ ~(result'.tool = "collectArtifact" /\ result'.success
                        /\ state'.artifacts # state.artifacts
                        /\ state'.artifacts[Len(state'.artifacts)] = "energy_crystal")]_vars

\* The crystal used, the energy above its initial value, and a second
\* useEnergyCrystal refused
C36_Witness ==
    /\ CrystalGone
    /\ state.energy > 30
    /\ result.tool = "useEnergyCrystal"
    /\ ~result.success

\* ------------------------------------------------------------------- C37
\* No energy left and no energy_crystal in the inventory
Exhausted ==
    /\ state.energy = 0
    /\ ~Includes(state.artifacts, "energy_crystal")

\* C37: exhaustion is permanent.  Once the energy is 0 and the energy_crystal is
\* not in the inventory, every later state has energy 0 and no crystal in the
\* inventory, and no moveToArea, collectArtifact or decodeSignal succeeds again.
C37_ExhaustionIsPermanent ==
    [][Exhausted =>
            /\ state'.energy = 0
            /\ Exhausted'
            /\ ~(/\ result'.success
                 /\ result'.tool \in {"moveToArea", "collectArtifact", "decodeSignal"})]_vars

\* Exhausted, and a move just refused for want of energy
C37_Witness ==
    /\ Exhausted
    /\ result.tool = "moveToArea"
    /\ ~result.success
    /\ result.error = "Insufficient energy"

\* ------------------------------------------------------------------- C38
\* C38: a completed game has earned its completion.  completed = true implies
\* that decodedSignals holds at least 3 entries, that they are for pairwise
\* distinct unordered pairs of clues, each pair with a recipe, and that
\* signal_source is among the explored areas.
C38_CompletedIsEarned ==
    state.completed =>
        /\ Len(state.decodedSignals) >= 3
        /\ \A i, j \in 1..Len(state.decodedSignals) :
                PairOf(state.decodedSignals[i]) = PairOf(state.decodedSignals[j]) => i = j
        /\ \A i \in 1..Len(state.decodedSignals) :
                /\ PairOf(state.decodedSignals[i]) \in RecipePairs
                /\ HasRecipe(state.decodedSignals[i][1], state.decodedSignals[i][2])
        /\ Cardinality(DecodedPairs(state.decodedSignals)) >= 3
        /\ Includes(state.exploredAreas, "signal_source")

\* Completed with exactly the three pairs the threshold asks for
C38_Witness ==
    /\ state.completed
    /\ Len(state.decodedSignals) = 3
    /\ Cardinality(DecodedPairs(state.decodedSignals)) = 3
    /\ Includes(state.exploredAreas, "signal_source")

\* ------------------------------------------------------------------- C39
\* C39: the accounting of the travel game.  In every reachable state budget +
\* totalSpent = 2000, stepCount is at most 8, visitedCities holds no city twice
\* and holds currentCity, and state.score is the sum of the values of the
\* visited cities other than the start; checkRoutes and planRoute leave every
\* field of the state unchanged.
C39_TravelAccounting ==
    /\ [](/\ travel.budget + travel.totalSpent = 2000
          /\ travel.stepCount <= MAX_STEPS
          /\ \A i, j \in 1..Len(travel.visitedCities) :
                travel.visitedCities[i] = travel.visitedCities[j] => i = j
          /\ Includes(travel.visitedCities, travel.currentCity)
          /\ travel.score = SumOfValues(VisitedSet(travel) \ {"newyork"}))
    /\ [][result'.tool \in {"checkRoutes", "planRoute"} =>
            (result'.success /\ travel' = travel)]_vars

\* The remaining cities asked for after three journeys
C39_Witness ==
    /\ result.tool = "planRoute"
    /\ result.success
    /\ Len(travel.visitedCities) = 4
    /\ travel.totalSpent > 0
    /\ travel.budget + travel.totalSpent = 2000
    /\ travel.score = SumOfValues(VisitedSet(travel) \ {"newyork"})

\* ------------------------------------------------------------------- C40
\* C40: the visitBonus in the payload of a successful travel call equals the
\* amount that call added to state.score: the destination's value on a first
\* visit, 0 on a revisit.
C40_VisitBonusIsScoreAdded ==
    [][(result'.tool = "travel" /\ result'.success) =>
            /\ result'.data.visitBonus = travel'.score - travel.score
            /\ result'.data.visitBonus =
                    IF Includes(travel.visitedCities, result'.data.newCity)
                    THEN 0 ELSE CityValue[result'.data.newCity]]_vars

==============================================================================
